---- MODULE Spec2Model ----
(***************************************************************************)
(* Model of the yambot TTS pipeline: the PlaybackQueue (TTSQueue), the     *)
(* playback scheduler (tts_player_task), the synthesis tasks spawned by    *)
(* handle_twitch_messages, and the frontend message handler                *)
(* (handle_frontend_to_backend_messages).  Further sections model the     *)
(* command registry and dispatcher, the pure functions of the intake       *)
(* (split_text, remove, the id derivation), the routing of a chat message, *)
(* the chat session tasks and the configuration file updates.              *)
(*                                                                         *)
(* Every task is a small program counter machine; one action is one        *)
(* stretch of code between two suspension points (an .await on the queue   *)
(* lock, on the channel, or a poll of the blocking playback thread).       *)
(***************************************************************************)
EXTENDS Integers, Sequences, FiniteSets, TLC

\* ---------------------------------------------------------------- bounds
\* TTS requests accepted in one run
MaxRequests == 2
\* text chunks split_text can return for one request
MaxChunks == 2
\* room in the backend -> UI channel (mpsc::channel(100) in main), scaled down
ChanCap == 1

\* last value of the clock the command contexts are stamped with
MaxTime == 2
\* longest text handed to split_text
MaxTextChars == 8
\* MAX_TEXT_LENGTH of service.rs (200 there), scaled to the texts above
MAX_TEXT_LENGTH == 3
\* longest chat message whose intake is studied
MaxMessageChars == 6
\* longest pending sequence handed to remove
MaxQueueLen == 3
\* longest chat message id
MaxIdChars == 3
\* longest chat message whose routing by the event loop is studied
MaxChatChars == 4
\* number of chat sessions ConnectToChat starts
MaxSessions == 2
\* values a section of the configuration is given after the initial 0
MaxConfigValue == 1

\* chat users that send TTS requests
Users == {"alice"}
\* ids of the accepted requests, in the order of their acceptance
Requests == 1..MaxRequests

\* triggers of the commands the UI registers
Triggers == {"hi"}
\* cooldowns (in clock units) the UI gives a command
Cooldowns == {2}
\* badge set ids a chat message can carry
AllBadges == {"subscriber", "founder", "vip", "moderator", "broadcaster"}
\* badge sets of the chatters that trigger commands
ChatBadgeSets == {{}, {"subscriber"}, {"moderator"}, {"broadcaster"}}
\* chat sessions (handle_twitch_messages tasks): one that ConnectToChat has
\* aborted but that has not reached an await yet, and the one replacing it
Sessions == {"s1", "s2"}

\* ------------------------------------------------------------- variables
VARIABLES
    queue,              \* TTSQueue.queue: VecDeque<TTSQueueItem>
    ignored_users,      \* TTSQueue.ignored_users
    currently_playing,  \* the currently-playing slot (NoItem when empty)
    skip_flag,          \* the shared atomic cancellation flag
    pc_s,               \* tts_player_task: position
    item_s,             \* tts_player_task: local `item`
    idx_s,              \* tts_player_task: chunk loop `index`
    result_s,           \* tts_player_task: how the blocking playback returned
    failed_s,           \* tts_player_task: a chunk of `item` could not be decoded
    sinks,              \* audio device: items whose source is being output
    tasks,              \* spawned synthesis tasks, one per accepted request
    nextReq,            \* number of TTS requests accepted so far, plus one
    pc_f,               \* frontend handler: position
    msg_f,              \* frontend handler: message being handled
    chanLen,            \* messages waiting in the backend -> UI channel
    addCount,           \* history: number of add() calls that took the queue lock
    published,          \* history: seq of the items ever put in the currently-playing slot
    discarded,          \* history: seq of the items dropped by the scheduler as ignored
    now,                \* the clock
    registry,           \* the shared CommandRegistry: trigger -> command
    reg_lock,           \* holder of the registry's RwLock write guard
    pc_d,               \* event loop of each session: position
    ctx_d,              \* event loop of each session: parsed command context
    exec_d,             \* event loop of each session: the executor's registry
    result_d,           \* event loop of each session: CommandResult of execute
    lastSuccess,        \* history: time of the last Success of each trigger's
                        \* present definition
    input,              \* argument of the function under study (NoInput: none)
    output,             \* what the function returned for `input`
    twitch_task_handle, \* frontend handler: JoinHandle of the stored session task
    sess,               \* state of each handle_twitch_messages task
    origin,             \* history: the session that accepted each TTS request
    config_file,        \* config.toml: the stored AppConfig
    current_config,     \* local `current_config` of each task that updates it
    pending_update,     \* the update each such task is carrying out
    latest_written      \* history: last value an update gave to each section

vars == <<queue, ignored_users, currently_playing, skip_flag, pc_s, item_s,
          idx_s, result_s, failed_s, sinks, tasks, nextReq, pc_f, msg_f, chanLen,
          addCount, published, discarded, now, registry, reg_lock, pc_d,
          ctx_d, exec_d, result_d, lastSuccess, input, output,
          twitch_task_handle, sess, origin, config_file, current_config,
          pending_update, latest_written>>

queueVars == <<queue, ignored_users, currently_playing, skip_flag>>
schedVars == <<pc_s, item_s, idx_s, result_s, failed_s>>
frontVars == <<pc_f, msg_f>>
histVars  == <<addCount, published, discarded>>
dispVars  == <<pc_d, ctx_d, exec_d, result_d>>
cmdVars   == <<now, registry, reg_lock, dispVars, lastSuccess>>
ttsVars   == <<queueVars, schedVars, sinks, tasks, nextReq, frontVars, histVars>>
sessVars  == <<twitch_task_handle, sess, origin>>
cfgVars   == <<config_file, current_config, pending_update, latest_written>>
utilVars  == <<input, output, sessVars, cfgVars>>

\* ------------------------------------------------------------ data model
\* Option::None for a TTSQueueItem
NoItem == [req |-> 0, chunk |-> 0, user |-> "", audio_chunks |-> 0, seq |-> 0]

\* The queue item built for chunk i of request r: one item per chunk, with a
\* one-element audio_chunks vector.  seq is a history stamp: the rank of the
\* add() call that enqueued the item.
TTSQueueItem(r, i, u, k) ==
    [req |-> r, chunk |-> i, user |-> u, audio_chunks |-> 1, seq |-> k]

NoTask == [pc |-> "none", idx |-> 0, n |-> 0, user |-> "", inflight |-> {}]
NoMsg == [kind |-> "none", id |-> NoItem]
NoInput == [kind |-> "none"]
\* the chat session tasks, numbered in the order ConnectToChat spawns them
SessionIds == 1..MaxSessions
\* Option::None for the JoinHandle of a session task
NoSession == 0
\* the parts of AppConfig that are written separately: the chatbot section
\* without its tokens, the two tokens of the chatbot section, sfx, tts
Sections == {"chatbot", "tokens", "sfx", "tts"}
\* the tasks that rewrite config.toml
ConfigTasks == {"frontend", "session"}
\* the task holds no loaded configuration
NoConfig == [sec \in Sections |-> -1]
\* the task is not carrying out an update
NoUpdate == [sections |-> {}, value |-> 0]
NoOutput == [kind |-> "none"]

Range(q) == {q[i] : i \in 1..Len(q)}

\* ------------------------------------------------------------ TTSQueue
\* (variant: the item is pushed at the front)
add_front(q, item) == <<item>> \o q

\* VecDeque::push_back under the queue lock
add(q, item) == Append(q, item)

\* (variant: VecDeque::pop_back, the newest item is taken)
pop_back(q) ==
    IF q = <<>> THEN <<NoItem, q>> ELSE <<q[Len(q)], SubSeq(q, 1, Len(q) - 1)>>

\* (variant: the head is returned but left in the queue)
pop_keep(q) == IF q = <<>> THEN <<NoItem, q>> ELSE <<Head(q), q>>

\* VecDeque::pop_front under the queue lock: <<result, remaining queue>>
pop(q) == IF q = <<>> THEN <<NoItem, q>> ELSE <<Head(q), Tail(q)>>

\* TTSQueue::skip_current is a plain pop of the pending sequence
skip_current(q) == pop(q)

\* (variant: nobody is ever reported as ignored)
is_user_ignored_never(ig, u) == FALSE

\* Vec::contains on the ignore list
is_user_ignored(ig, u) == u \in ig

\* currently-playing item, if any, followed by the pending items
get_all_with_current(cur, q) == IF cur = NoItem THEN q ELSE <<cur>> \o q

\* ---------------------------------------- CommandRegistry, CommandExecutor
\* last_triggered of a command that has not been triggered (Option::None)
Never == -1

\* permission set of a command: the roles, besides the broadcaster, that
\* may run it
Permissions == [subs : BOOLEAN, vips : BOOLEAN, mods : BOOLEAN]

\* permission sets the UI gives a command
UIPermissions ==
    {p \in Permissions : Cardinality({f \in {"subs", "vips", "mods"} : p[f]}) <= 1}

\* no command under a trigger (HashMap::get returns None)
NoCommand ==
    [enabled |-> FALSE, cooldown |-> -1,
     permission |-> [subs |-> FALSE, vips |-> FALSE, mods |-> FALSE],
     last_triggered |-> Never]

\* the command definitions the UI sends with AddCommand / UpdateCommand: its
\* own copies, built in the UI or cloned from the registry at startup, none
\* of which has been triggered
UICommands ==
    [enabled : BOOLEAN, cooldown : Cooldowns, permission : UIPermissions,
     last_triggered : {Never}]

\* no context (the message is not a command)
NoContext == [trigger |-> "", badges |-> {}, time |-> Never]

\* the results of CommandExecutor::execute; remaining is that of OnCooldown
CommandResult(k, rem) == [kind |-> k, remaining |-> rem]
NoResult == CommandResult("none", 0)

\* CommandRegistry::register: insert or replace by trigger
register(reg, g, def) == [reg EXCEPT ![g] = def]

\* CommandRegistry::unregister: remove, no-op if absent
unregister(reg, g) == [reg EXCEPT ![g] = NoCommand]

\* ToggleCommand: get_mut(trigger) and cmd.enabled = enabled, if present
toggle(reg, g, enabled) ==
    IF reg[g] = NoCommand THEN reg ELSE [reg EXCEPT ![g].enabled = enabled]

\* (variant: the broadcaster is subject to the flags like a moderator)
has_permission_flags_only(badges, perm) ==
    \/ ({"subscriber", "founder"} \cap badges # {}) /\ perm.subs
    \/ "vip" \in badges /\ perm.vips
    \/ ({"moderator", "broadcaster"} \cap badges # {}) /\ perm.mods

\* permission check of execute: some badge of the user is allowed
has_permission(badges, perm) ==
    \E b \in badges :
        \/ b \in {"subscriber", "founder"} /\ perm.subs
        \/ b = "vip" /\ perm.vips
        \/ b = "moderator" /\ perm.mods
        \/ b = "broadcaster"

\* CommandExecutor::execute on the executor's registry: the result, and the
\* registry the executor holds afterwards
execute(reg, ctx) ==
    LET cmd == reg[ctx.trigger] IN
    IF cmd = NoCommand
    THEN [result |-> CommandResult("NotFound", 0), registry |-> reg]
    ELSE IF ~cmd.enabled
    THEN [result |-> CommandResult("NotFound", 0), registry |-> reg]
    ELSE IF ~has_permission(ctx.badges, cmd.permission)
    THEN [result |-> CommandResult("PermissionDenied", 0), registry |-> reg]
    ELSE IF cmd.last_triggered # Never /\ ctx.time - cmd.last_triggered < cmd.cooldown
    THEN [result |-> CommandResult("OnCooldown", cmd.cooldown - (ctx.time - cmd.last_triggered)),
          registry |-> reg]
    ELSE [result |-> CommandResult("Success", 0),
          registry |-> [reg EXCEPT ![ctx.trigger].last_triggered = ctx.time]]

\* (variant: a shared guard, as RwLock::read would give)
can_write_shared(lock) == TRUE

\* RwLock::write: the guard is granted when nobody holds the lock
can_write(lock) == lock = "free"

\* ------------------------------------------------------------------ Init
\* State after main() has built the queue and spawned the player task and
\* the frontend handler; no chat session has delivered a message yet.
InitProgram ==
    /\ queue = <<>>
    /\ ignored_users = {}
    /\ currently_playing = NoItem
    /\ skip_flag = FALSE
    /\ pc_s = "pop"
    /\ item_s = NoItem
    /\ idx_s = 0
    /\ result_s = "none"
    /\ failed_s = FALSE
    /\ sinks = {}
    /\ tasks = [r \in Requests |-> NoTask]
    /\ nextReq = 1
    /\ pc_f = "recv"
    /\ msg_f = NoMsg
    /\ chanLen = 0
    /\ addCount = 0
    /\ published = {}
    /\ discarded = {}
    /\ now = 0
    /\ registry = [g \in Triggers |-> NoCommand]
    /\ reg_lock = "free"
    /\ pc_d = [s \in Sessions |-> "recv"]
    /\ ctx_d = [s \in Sessions |-> NoContext]
    /\ exec_d = [s \in Sessions |-> [g \in Triggers |-> NoCommand]]
    /\ result_d = [s \in Sessions |-> NoResult]
    /\ lastSuccess = [g \in Triggers |-> Never]
    /\ twitch_task_handle = NoSession
    /\ sess = [s \in SessionIds |-> "unborn"]
    /\ origin = [r \in Requests |-> NoSession]
    /\ config_file = [sec \in Sections |-> 0]
    /\ current_config = [t \in ConfigTasks |-> NoConfig]
    /\ pending_update = [t \in ConfigTasks |-> NoUpdate]
    /\ latest_written = [sec \in Sections |-> 0]

\* The program after construction; no function is under study.
Init ==
    /\ InitProgram
    /\ input = NoInput
    /\ output = NoOutput

\* ------------------------------------------- handle_twitch_messages (TTS)
\* (variant: the synthesis is awaited in the event loop instead of spawned,
\* so the next event is taken only when no synthesis is pending)
AcceptTTS_inline(u, n) ==
    /\ nextReq <= MaxRequests
    /\ \A r \in Requests : tasks[r].pc \in {"none", "done"}
    /\ ~is_user_ignored(ignored_users, u)
    /\ tasks' = [tasks EXCEPT ![nextReq] = [pc |-> "fetch", idx |-> 0, n |-> n, user |-> u, inflight |-> {0}]]
    /\ nextReq' = nextReq + 1
    /\ UNCHANGED <<cmdVars, utilVars, queueVars, schedVars, sinks, frontVars, chanLen, histVars>>

\* (variant: the calls for all n chunks are issued together, as a join over
\* the chunks would)
AcceptTTS_concurrent(u, n) ==
    /\ nextReq <= MaxRequests
    /\ ~is_user_ignored(ignored_users, u)
    /\ tasks' = [tasks EXCEPT ![nextReq] = [pc |-> "fetch", idx |-> 0, n |-> n, user |-> u,
                                            inflight |-> 0..(n - 1)]]
    /\ nextReq' = nextReq + 1
    /\ UNCHANGED <<cmdVars, utilVars, queueVars, schedVars, sinks, frontVars, chanLen, histVars>>

\* A chat message `!<lang> <text>` from user u whose text splits into n
\* chunks passes the gates and its synthesis task is spawned.  The sender
\* must not be on the ignore list at intake.
AcceptTTS(u, n) ==
    /\ nextReq <= MaxRequests
    /\ ~is_user_ignored(ignored_users, u)
    /\ tasks' = [tasks EXCEPT ![nextReq] = [pc |-> "fetch", idx |-> 0, n |-> n, user |-> u, inflight |-> {0}]]
    /\ nextReq' = nextReq + 1
    /\ UNCHANGED <<cmdVars, utilVars, queueVars, schedVars, sinks, frontVars, chanLen, histVars>>

\* (variant: a failed chunk ends the task, as `?` would)
SynthFetch_abort(r) ==
    /\ tasks[r].pc = "fetch"
    /\ \E ok \in BOOLEAN :
         IF ok
         THEN /\ queue' = add(queue, TTSQueueItem(r, tasks[r].idx, tasks[r].user, addCount + 1))
              /\ addCount' = addCount + 1
              /\ tasks' = [tasks EXCEPT ![r].pc = "send",
                                        ![r].inflight = @ \ {tasks[r].idx}]
         ELSE /\ tasks' = [tasks EXCEPT ![r].pc = "done", ![r].inflight = {}]
              /\ UNCHANGED <<queue, addCount>>
    /\ UNCHANGED <<cmdVars, utilVars, ignored_users, currently_playing, skip_flag, schedVars, sinks,
                   nextReq, frontVars, chanLen, published, discarded>>

\* fetch_tts_audio for the current chunk returns (the call leaves the set
\* `inflight` of the task's outstanding calls).  Ok: the chunk becomes its
\* own queue item and is added.  Err: nothing is added.  Either way the task
\* goes on to its send (of the new snapshot, or of the error log).
SynthFetch(r) ==
    /\ tasks[r].pc = "fetch"
    /\ \E ok \in BOOLEAN :
         IF ok
         THEN /\ queue' = add(queue, TTSQueueItem(r, tasks[r].idx, tasks[r].user, addCount + 1))
              /\ addCount' = addCount + 1
              /\ tasks' = [tasks EXCEPT ![r].pc = "send",
                                        ![r].inflight = @ \ {tasks[r].idx}]
         ELSE /\ tasks' = [tasks EXCEPT ![r].pc = "log",
                                        ![r].inflight = @ \ {tasks[r].idx}]
              /\ UNCHANGED <<queue, addCount>>
    /\ UNCHANGED <<cmdVars, utilVars, ignored_users, currently_playing, skip_flag, schedVars, sinks,
                   nextReq, frontVars, chanLen, published, discarded>>

\* Where the synthesis task goes after finishing the body of the for loop
\* for chunk t.idx: the next chunk, whose fetch_tts_audio call is issued, or
\* the end of the task.
SynthNext(t) ==
    IF t.idx + 1 < t.n
    THEN [t EXCEPT !.pc = "fetch", !.idx = t.idx + 1,
                   !.inflight = @ \union {t.idx + 1}]
    ELSE [t EXCEPT !.pc = "done"]

\* backend_tx.send(..).await of the snapshot (get_all_with_current) or of
\* the error log: waits for room in the channel, then the loop goes on with
\* the next chunk.
SynthSend(r) ==
    /\ tasks[r].pc \in {"send", "log"}
    /\ chanLen < ChanCap
    /\ chanLen' = chanLen + 1
    /\ tasks' = [tasks EXCEPT ![r] = SynthNext(tasks[r])]
    /\ UNCHANGED <<cmdVars, utilVars, queueVars, schedVars, sinks, nextReq, frontVars, histVars>>

\* -------------------------------------------------------- tts_player_task
\* queue.pop().await at the top of the loop; on None the task sleeps 100 ms
\* and tries again.
SchedPop ==
    /\ pc_s = "pop"
    /\ IF pop(queue)[1] = NoItem
       THEN UNCHANGED <<queue, item_s, pc_s>>
       ELSE /\ item_s' = pop(queue)[1]
            /\ queue' = pop(queue)[2]
            /\ pc_s' = "check_ignored"
    /\ UNCHANGED <<cmdVars, utilVars, ignored_users, currently_playing, skip_flag, idx_s, result_s,
                   failed_s, sinks, tasks, nextReq, frontVars, chanLen, histVars>>

\* is_user_ignored(item.request.username): an ignored requester's item is
\* dropped with `continue`.
SchedCheckIgnored ==
    /\ pc_s = "check_ignored"
    /\ IF is_user_ignored(ignored_users, item_s.user)
       THEN /\ pc_s' = "pop"
            /\ item_s' = NoItem
            /\ discarded' = discarded \cup {item_s.seq}
       ELSE /\ pc_s' = "publish"
            /\ UNCHANGED <<item_s, discarded>>
    /\ UNCHANGED <<cmdVars, utilVars, queueVars, idx_s, result_s, failed_s, sinks, tasks, nextReq,
                   frontVars, chanLen, addCount, published>>

\* (variant: the slot is not written)
SchedPublish_nostore ==
    /\ pc_s = "publish"
    /\ published' = published \cup {item_s.seq}
    /\ pc_s' = "send_first"
    /\ UNCHANGED <<cmdVars, utilVars, queueVars, item_s, idx_s, result_s, failed_s, sinks,
                   tasks, nextReq, frontVars, chanLen, addCount, discarded>>

\* queue.set_currently_playing(Some(item.clone()))
SchedPublish ==
    /\ pc_s = "publish"
    /\ currently_playing' = item_s
    /\ published' = published \cup {item_s.seq}
    /\ pc_s' = "send_first"
    /\ UNCHANGED <<cmdVars, utilVars, queue, ignored_users, skip_flag, item_s, idx_s, result_s, failed_s,
                   sinks, tasks, nextReq, frontVars, chanLen, addCount, discarded>>

\* get_all_with_current() and backend_tx.send(TTSQueueUpdated).await: the
\* send waits for room in the channel.
SchedSendFirst ==
    /\ pc_s = "send_first"
    /\ chanLen < ChanCap
    /\ chanLen' = chanLen + 1
    /\ pc_s' = "open"
    /\ UNCHANGED <<cmdVars, utilVars, queueVars, item_s, idx_s, result_s, failed_s, sinks, tasks,
                   nextReq, frontVars, histVars>>

\* (variant: a failure to open the stream ends the player task)
SchedOpenStream_fatal ==
    /\ pc_s = "open"
    /\ \E opened \in BOOLEAN :
         IF opened
         THEN pc_s' = "chunk" /\ UNCHANGED result_s
         ELSE pc_s' = "stopped" /\ result_s' = "open_failed"
    /\ idx_s' = 0
    /\ UNCHANGED <<cmdVars, utilVars, queueVars, item_s, failed_s, sinks, tasks, nextReq, frontVars,
                   chanLen, histVars>>

\* spawn_blocking: the closure opens the default output stream.  On failure
\* it returns Err at once; otherwise it enters the chunk loop at index 0.
SchedOpenStream ==
    /\ pc_s = "open"
    /\ \E opened \in BOOLEAN :
         IF opened
         THEN pc_s' = "chunk" /\ UNCHANGED result_s
         ELSE pc_s' = "clear_skip" /\ result_s' = "open_failed"
    /\ idx_s' = 0
    /\ UNCHANGED <<cmdVars, utilVars, queueVars, item_s, failed_s, sinks, tasks, nextReq, frontVars,
                   chanLen, histVars>>

\* End of the body of the chunk loop for chunk idx_s: the next chunk, or the
\* closure returns Ok(()) and its stream is dropped.
SchedAdvance ==
    IF idx_s + 1 < item_s.audio_chunks
    THEN /\ idx_s' = idx_s + 1
         /\ pc_s' = "chunk"
         /\ UNCHANGED <<sinks, result_s>>
    ELSE /\ pc_s' = "clear_skip"
         /\ result_s' = "finished"
         /\ sinks' = {}
         /\ UNCHANGED idx_s

\* (variant: no check of the skip flag before the chunk)
SchedChunk_nocheck ==
    /\ pc_s = "chunk"
    /\ \E decoded \in BOOLEAN :
         IF decoded
         THEN /\ sinks' = sinks \cup {item_s}
              /\ pc_s' = "poll"
              /\ UNCHANGED <<idx_s, result_s, failed_s>>
         ELSE SchedAdvance /\ failed_s' = TRUE
    /\ UNCHANGED <<cmdVars, utilVars, queueVars, item_s, tasks, nextReq, frontVars, chanLen, histVars>>

\* (variant: a chunk that does not decode ends the playback with an error)
SchedChunk_abort ==
    /\ pc_s = "chunk"
    /\ IF skip_flag
       THEN /\ pc_s' = "clear_skip"
            /\ result_s' = "skip_before_chunk"
            /\ sinks' = {}
            /\ UNCHANGED <<idx_s, failed_s>>
       ELSE \E decoded \in BOOLEAN :
              IF decoded
              THEN /\ sinks' = sinks \cup {item_s}
                   /\ pc_s' = "poll"
                   /\ UNCHANGED <<idx_s, result_s, failed_s>>
              ELSE /\ pc_s' = "clear_skip"
                   /\ result_s' = "decode_failed"
                   /\ failed_s' = TRUE
                   /\ UNCHANGED <<idx_s, sinks>>
    /\ UNCHANGED <<cmdVars, utilVars, queueVars, item_s, tasks, nextReq, frontVars, chanLen, histVars>>

\* Top of the chunk loop: the skip flag is checked before the chunk; if it is
\* clear the chunk is decoded and, when it decodes, appended to a new sink.
SchedChunk ==
    /\ pc_s = "chunk"
    /\ IF skip_flag
       THEN /\ pc_s' = "clear_skip"
            /\ result_s' = "skip_before_chunk"
            /\ sinks' = {}
            /\ UNCHANGED <<idx_s, failed_s>>
       ELSE \E decoded \in BOOLEAN :
              IF decoded
              THEN /\ sinks' = sinks \cup {item_s}
                   /\ pc_s' = "poll"
                   /\ UNCHANGED <<idx_s, result_s, failed_s>>
              ELSE SchedAdvance /\ failed_s' = TRUE
    /\ UNCHANGED <<cmdVars, utilVars, queueVars, item_s, tasks, nextReq, frontVars, chanLen, histVars>>

\* (variant: the sink is detached instead of waited for, and the stream is
\* kept open, as the sound-effect task does)
SchedPoll_detach ==
    /\ pc_s = "poll"
    /\ pc_s' = "clear_skip"
    /\ result_s' = "finished"
    /\ UNCHANGED <<cmdVars, utilVars, queueVars, item_s, idx_s, failed_s, sinks, tasks, nextReq,
                   frontVars, chanLen, histVars>>

\* One turn of `while !sink.empty()`: a set skip flag stops the sink and
\* returns; otherwise the thread sleeps 50 ms.  An empty sink ends the chunk.
SchedPoll ==
    /\ pc_s = "poll"
    /\ IF item_s \in sinks
       THEN IF skip_flag
            THEN /\ sinks' = {}
                 /\ pc_s' = "clear_skip"
                 /\ result_s' = "skip_during_playback"
                 /\ UNCHANGED idx_s
            ELSE UNCHANGED <<sinks, pc_s, idx_s, result_s>>
       ELSE SchedAdvance
    /\ UNCHANGED <<cmdVars, utilVars, queueVars, item_s, failed_s, tasks, nextReq, frontVars, chanLen,
                   histVars>>

\* The audio device reaches the end of a source it is playing.
SinkFinish ==
    /\ \E it \in sinks : sinks' = sinks \ {it}
    /\ UNCHANGED <<cmdVars, utilVars, queueVars, schedVars, tasks, nextReq, frontVars, chanLen, histVars>>

\* queue.clear_skip() after the blocking playback has been joined
SchedClearSkip ==
    /\ pc_s = "clear_skip"
    /\ skip_flag' = FALSE
    /\ pc_s' = "clear_current"
    /\ UNCHANGED <<cmdVars, utilVars, queue, ignored_users, currently_playing, item_s, idx_s, result_s,
                   failed_s, sinks, tasks, nextReq, frontVars, chanLen, histVars>>

\* (variant: the slot is not cleared before the final snapshot)
SchedClearCurrent_keep ==
    /\ pc_s = "clear_current"
    /\ pc_s' = "send_final"
    /\ UNCHANGED <<cmdVars, utilVars, queueVars, item_s, idx_s, result_s, failed_s,
                   sinks, tasks, nextReq, frontVars, chanLen, histVars>>

\* queue.set_currently_playing(None)
SchedClearCurrent ==
    /\ pc_s = "clear_current"
    /\ currently_playing' = NoItem
    /\ pc_s' = "send_final"
    /\ UNCHANGED <<cmdVars, utilVars, queue, ignored_users, skip_flag, item_s, idx_s, result_s, failed_s,
                   sinks, tasks, nextReq, frontVars, chanLen, histVars>>

\* get_all_with_current() and backend_tx.send(TTSQueueUpdated).await, then
\* back to the top of the loop
SchedSendFinal ==
    /\ pc_s = "send_final"
    /\ chanLen < ChanCap
    /\ chanLen' = chanLen + 1
    /\ pc_s' = "pop"
    /\ item_s' = NoItem
    /\ idx_s' = 0
    /\ result_s' = "none"
    /\ failed_s' = FALSE
    /\ UNCHANGED <<cmdVars, utilVars, queueVars, sinks, tasks, nextReq, frontVars, histVars>>

\* ------------------------------------ handle_frontend_to_backend_messages
\* Sender::try_send: the message is dropped when the channel is full
try_send(n) == IF n < ChanCap THEN n + 1 ELSE n

\* FrontendToBackendMessage::GetTTSQueue: snapshot and try_send
FrontGetTTSQueue ==
    /\ pc_f = "recv"
    /\ chanLen' = try_send(chanLen)
    /\ UNCHANGED <<cmdVars, utilVars, queueVars, schedVars, sinks, tasks, nextReq, frontVars, histVars>>

\* FrontendToBackendMessage::SkipCurrentTTS: tts_queue.skip_current().await,
\* then the updated snapshot is passed to try_send
FrontSkipCurrentTTS ==
    /\ pc_f = "recv"
    /\ queue' = skip_current(queue)[2]
    /\ chanLen' = try_send(chanLen)
    /\ UNCHANGED <<cmdVars, utilVars, ignored_users, currently_playing, skip_flag, schedVars, sinks,
                   tasks, nextReq, frontVars, histVars>>

\* FrontendToBackendMessage::SkipTTSMessage(message_id): is_current is
\* computed from get_currently_playing(); when it is false the handler only
\* sends the snapshot.
FrontSkipTTSMessage(id) ==
    /\ pc_f = "recv"
    /\ IF currently_playing # NoItem /\ currently_playing = id
       THEN /\ pc_f' = "skip"
            /\ msg_f' = [kind |-> "SkipTTSMessage", id |-> id]
            /\ UNCHANGED chanLen
       ELSE /\ chanLen' = try_send(chanLen)
            /\ UNCHANGED frontVars
    /\ UNCHANGED <<cmdVars, utilVars, queueVars, schedVars, sinks, tasks, nextReq, histVars>>

\* SkipTTSMessage, is_current branch: tts_queue.skip_current().await, then
\* the updated snapshot is passed to try_send
FrontSkipIfCurrent ==
    /\ pc_f = "skip"
    /\ queue' = skip_current(queue)[2]
    /\ chanLen' = try_send(chanLen)
    /\ pc_f' = "recv"
    /\ msg_f' = NoMsg
    /\ UNCHANGED <<cmdVars, utilVars, ignored_users, currently_playing, skip_flag, schedVars, sinks,
                   tasks, nextReq, histVars>>

\* ------------------------------------------------------------ environment
\* The UI frame loop drains the channel with try_recv.
UIDrain ==
    /\ chanLen > 0
    /\ chanLen' = chanLen - 1
    /\ UNCHANGED <<cmdVars, utilVars, queueVars, schedVars, sinks, tasks, nextReq, frontVars, histVars>>

\* request_skip on the shared cancellation flag, from any context
RequestSkip ==
    /\ skip_flag' = TRUE
    /\ UNCHANGED <<cmdVars, utilVars, queue, ignored_users, currently_playing, schedVars, sinks, tasks,
                   nextReq, frontVars, chanLen, histVars>>

\* TTSQueue::ignore_user
IgnoreUser(u) ==
    /\ ignored_users' = IF u \in ignored_users THEN ignored_users
                        ELSE ignored_users \cup {u}
    /\ UNCHANGED <<cmdVars, utilVars, queue, currently_playing, skip_flag, schedVars, sinks, tasks,
                   nextReq, frontVars, chanLen, histVars>>

\* TTSQueue::unignore_user
UnignoreUser(u) ==
    /\ ignored_users' = {x \in ignored_users : x # u}
    /\ UNCHANGED <<cmdVars, utilVars, queue, currently_playing, skip_flag, schedVars, sinks, tasks,
                   nextReq, frontVars, chanLen, histVars>>

\* ------------------------------------- handle_twitch_messages (commands)
\* Time passes.
Tick ==
    /\ now < MaxTime
    /\ now' = now + 1
    /\ UNCHANGED <<ttsVars, utilVars, chanLen, registry, reg_lock, dispVars, lastSuccess>>

\* command_parser.parse(msg): a chat message of a user with badges b that
\* starts with the prefix and the name g gives a context, stamped with the
\* current time.
DispParse(s, g, b) ==
    /\ pc_d[s] = "recv"
    /\ ctx_d' = [ctx_d EXCEPT ![s] = [trigger |-> g, badges |-> b, time |-> now]]
    /\ pc_d' = [pc_d EXCEPT ![s] = "lock"]
    /\ UNCHANGED <<ttsVars, utilVars, chanLen, now, registry, reg_lock, exec_d, result_d,
                   lastSuccess>>

\* command_registry.write().await, CommandExecutor::new(registry.clone())
\* and executor.execute(&context), with the write guard held
DispExecute(s) ==
    /\ pc_d[s] = "lock"
    /\ can_write(reg_lock)
    /\ reg_lock' = s
    /\ LET r == execute(registry, ctx_d[s]) IN
         /\ exec_d' = [exec_d EXCEPT ![s] = r.registry]
         /\ result_d' = [result_d EXCEPT ![s] = r.result]
         /\ lastSuccess' = IF r.result.kind = "Success"
                           THEN [lastSuccess EXCEPT ![ctx_d[s].trigger] = ctx_d[s].time]
                           ELSE lastSuccess
    /\ pc_d' = [pc_d EXCEPT ![s] = "writeback"]
    /\ UNCHANGED <<ttsVars, utilVars, chanLen, now, registry, ctx_d>>

\* (variant: the executor's registry is dropped, not written back)
DispWriteBack_dropped(s) ==
    /\ pc_d[s] = "writeback"
    /\ reg_lock' = "free"
    /\ exec_d' = [exec_d EXCEPT ![s] = [g \in Triggers |-> NoCommand]]
    /\ pc_d' = [pc_d EXCEPT ![s] = "handle"]
    /\ UNCHANGED <<ttsVars, utilVars, chanLen, now, registry, ctx_d, result_d, lastSuccess>>

\* (variant: the write guard outlives the block and is still held while the
\* result is handled)
DispWriteBack_held(s) ==
    /\ pc_d[s] = "writeback"
    /\ registry' = exec_d[s]
    /\ exec_d' = [exec_d EXCEPT ![s] = [g \in Triggers |-> NoCommand]]
    /\ pc_d' = [pc_d EXCEPT ![s] = "handle"]
    /\ UNCHANGED <<ttsVars, utilVars, chanLen, now, reg_lock, ctx_d, result_d, lastSuccess>>

\* *registry = executor.registry().clone(), and the guard is dropped at the
\* end of the block
DispWriteBack(s) ==
    /\ pc_d[s] = "writeback"
    /\ registry' = exec_d[s]
    /\ reg_lock' = "free"
    /\ exec_d' = [exec_d EXCEPT ![s] = [g \in Triggers |-> NoCommand]]
    /\ pc_d' = [pc_d EXCEPT ![s] = "handle"]
    /\ UNCHANGED <<ttsVars, utilVars, chanLen, now, ctx_d, result_d, lastSuccess>>

\* the event loop is back at rx.recv()
DispDone(s) ==
    /\ pc_d' = [pc_d EXCEPT ![s] = "recv"]
    /\ ctx_d' = [ctx_d EXCEPT ![s] = NoContext]
    /\ result_d' = [result_d EXCEPT ![s] = NoResult]

\* (variant: NotFound is dropped like OnCooldown)
DispHandle_nofallback(s) ==
    /\ pc_d[s] = "handle"
    /\ \/ /\ result_d[s].kind = "Success"
          /\ \E sent \in BOOLEAN :
               IF sent THEN UNCHANGED chanLen
               ELSE chanLen < ChanCap /\ chanLen' = chanLen + 1
          /\ DispDone(s)
       \/ /\ result_d[s].kind = "PermissionDenied"
          /\ chanLen < ChanCap
          /\ chanLen' = chanLen + 1
          /\ DispDone(s)
       \/ /\ result_d[s].kind \in {"OnCooldown", "NotFound"}
          /\ UNCHANGED chanLen
          /\ DispDone(s)
    /\ UNCHANGED <<ttsVars, utilVars, now, registry, reg_lock, exec_d, lastSuccess>>

\* match result: Success sends the action to the chat and logs a failure of
\* that; NotFound goes on to the sound-effect lookup; PermissionDenied logs
\* a warning; OnCooldown does nothing.  The logs are sent with send().await.
DispHandle(s) ==
    /\ pc_d[s] = "handle"
    /\ \/ /\ result_d[s].kind = "Success"
          /\ \E sent \in BOOLEAN :
               IF sent THEN UNCHANGED chanLen
               ELSE chanLen < ChanCap /\ chanLen' = chanLen + 1
          /\ DispDone(s)
       \/ /\ result_d[s].kind = "NotFound"
          /\ pc_d' = [pc_d EXCEPT ![s] = "sfx"]
          /\ UNCHANGED <<chanLen, ctx_d, result_d>>
       \/ /\ result_d[s].kind = "PermissionDenied"
          /\ chanLen < ChanCap
          /\ chanLen' = chanLen + 1
          /\ DispDone(s)
       \/ /\ result_d[s].kind = "OnCooldown"
          /\ UNCHANGED chanLen
          /\ DispDone(s)
    /\ UNCHANGED <<ttsVars, utilVars, now, registry, reg_lock, exec_d, lastSuccess>>

\* NotFound: the sound file named like the command is looked up and, when
\* it exists and the user may, handed to the audio task
DispSfx(s) ==
    /\ pc_d[s] = "sfx"
    /\ DispDone(s)
    /\ UNCHANGED <<ttsVars, utilVars, chanLen, now, registry, reg_lock, exec_d, lastSuccess>>

\* ------------------------- handle_frontend_to_backend_messages (commands)
\* (variant: a trigger that is already registered keeps its definition)
FrontAddCommand_if_absent(g, def) ==
    /\ pc_f = "recv"
    /\ can_write(reg_lock)
    /\ registry' = IF registry[g] = NoCommand THEN register(registry, g, def)
                   ELSE registry
    /\ lastSuccess' = [lastSuccess EXCEPT ![g] = Never]
    /\ chanLen' = try_send(try_send(chanLen))
    /\ UNCHANGED <<ttsVars, utilVars, now, reg_lock, dispVars>>

\* FrontendToBackendMessage::AddCommand(command): register and save under
\* the write guard, then two try_send (log, CommandsUpdated)
FrontAddCommand(g, def) ==
    /\ pc_f = "recv"
    /\ can_write(reg_lock)
    /\ registry' = register(registry, g, def)
    /\ lastSuccess' = [lastSuccess EXCEPT ![g] = Never]
    /\ chanLen' = try_send(try_send(chanLen))
    /\ UNCHANGED <<ttsVars, utilVars, now, reg_lock, dispVars>>

\* FrontendToBackendMessage::UpdateCommand(command): as AddCommand
FrontUpdateCommand(g, def) ==
    /\ pc_f = "recv"
    /\ can_write(reg_lock)
    /\ registry' = register(registry, g, def)
    /\ lastSuccess' = [lastSuccess EXCEPT ![g] = Never]
    /\ chanLen' = try_send(try_send(chanLen))
    /\ UNCHANGED <<ttsVars, utilVars, now, reg_lock, dispVars>>

\* FrontendToBackendMessage::RemoveCommand(trigger)
FrontRemoveCommand(g) ==
    /\ pc_f = "recv"
    /\ can_write(reg_lock)
    /\ registry' = unregister(registry, g)
    /\ lastSuccess' = [lastSuccess EXCEPT ![g] = Never]
    /\ chanLen' = try_send(try_send(chanLen))
    /\ UNCHANGED <<ttsVars, utilVars, now, reg_lock, dispVars>>

\* FrontendToBackendMessage::ToggleCommand(trigger, enabled): when the
\* command exists its flag is set, the registry saved and a log passed to
\* try_send
FrontToggleCommand(g, enabled) ==
    /\ pc_f = "recv"
    /\ can_write(reg_lock)
    /\ registry' = toggle(registry, g, enabled)
    /\ chanLen' = IF registry[g] = NoCommand THEN chanLen ELSE try_send(chanLen)
    /\ UNCHANGED <<ttsVars, utilVars, now, reg_lock, dispVars, lastSuccess>>

\* ------------------------------------------------------------------- Next
\* Ids the UI can name in SkipTTSMessage: those of the items it was shown.
KnownIds == Range(get_all_with_current(currently_playing, queue))

Next ==
    \/ \E u \in Users, n \in 1..MaxChunks : AcceptTTS(u, n)
    \/ \E r \in Requests : SynthFetch(r)
    \/ \E r \in Requests : SynthSend(r)
    \/ SchedPop
    \/ SchedCheckIgnored
    \/ SchedPublish
    \/ SchedSendFirst
    \/ SchedOpenStream
    \/ SchedChunk
    \/ SchedPoll
    \/ SinkFinish
    \/ SchedClearSkip
    \/ SchedClearCurrent
    \/ SchedSendFinal
    \/ FrontGetTTSQueue
    \/ FrontSkipCurrentTTS
    \/ \E id \in KnownIds : FrontSkipTTSMessage(id)
    \/ FrontSkipIfCurrent
    \/ UIDrain
    \/ RequestSkip
    \/ \E u \in Users : IgnoreUser(u)
    \/ \E u \in Users : UnignoreUser(u)

Spec == Init /\ [][Next]_vars

\* The command side of the program: the event loops of the sessions, the
\* command messages of the UI, the clock and the UI's drain of the channel.
CmdNext ==
    \/ Tick
    \/ \E s \in Sessions, g \in Triggers, b \in ChatBadgeSets : DispParse(s, g, b)
    \/ \E s \in Sessions : DispExecute(s)
    \/ \E s \in Sessions : DispWriteBack(s)
    \/ \E s \in Sessions : DispHandle(s)
    \/ \E s \in Sessions : DispSfx(s)
    \/ \E g \in Triggers, def \in UICommands : FrontAddCommand(g, def)
    \/ \E g \in Triggers, def \in UICommands : FrontUpdateCommand(g, def)
    \/ \E g \in Triggers : FrontRemoveCommand(g)
    \/ \E g \in Triggers, enabled \in BOOLEAN : FrontToggleCommand(g, enabled)
    \/ UIDrain

CmdSpec == Init /\ [][CmdNext]_vars

\* The player task is scheduled; its two channel sends are served when room
\* comes up often enough (tokio's mpsc hands freed permits to waiting senders
\* in order), and the UI frame loop keeps draining the channel.  Nothing is
\* assumed of the audio device or of the other tasks.
FairSpec ==
    /\ Spec
    /\ WF_vars(SchedPop)
    /\ WF_vars(SchedCheckIgnored)
    /\ WF_vars(SchedPublish)
    /\ SF_vars(SchedSendFirst)
    /\ WF_vars(SchedOpenStream)
    /\ WF_vars(SchedChunk)
    /\ WF_vars(SchedPoll)
    /\ WF_vars(SchedClearSkip)
    /\ WF_vars(SchedClearCurrent)
    /\ SF_vars(SchedSendFinal)
    /\ WF_vars(UIDrain)

\* The player task is scheduled fairly and every playback comes to its end;
\* nothing is assumed of the UI.
SchedFairSpec ==
    /\ Spec
    /\ WF_vars(SchedPop)
    /\ WF_vars(SchedCheckIgnored)
    /\ WF_vars(SchedPublish)
    /\ SF_vars(SchedSendFirst)
    /\ WF_vars(SchedOpenStream)
    /\ WF_vars(SchedChunk)
    /\ WF_vars(SchedPoll)
    /\ WF_vars(SinkFinish)
    /\ WF_vars(SchedClearSkip)
    /\ WF_vars(SchedClearCurrent)
    /\ SF_vars(SchedSendFinal)


\* ------------------------------------------------- functions under study
\* Strings are sequences of one-character strings; len() is Len, since
\* every character below is one byte of UTF-8.
Strings(chars, n) == UNION {[1..k -> chars] : k \in 0..n}

\* the characters of the texts handed to split_text: two letters, a space
TextChars == {"a", "b", " "}
\* the characters of chat messages: the command prefix, a letter in either
\* case, a space
MessageChars == {"!", "a", "A", " "}
\* the characters of chat message ids
IdChars == {"m", "-", "0"}
\* codes of the enabled languages of the language configuration
Languages == {<<"a">>}

\* char::is_whitespace
is_whitespace(c) == c = " "

\* str::trim_start
RECURSIVE trim_start(_)
trim_start(t) ==
    IF t # <<>> /\ is_whitespace(Head(t)) THEN trim_start(Tail(t)) ELSE t

\* str::trim_end
RECURSIVE trim_end(_)
trim_end(t) ==
    IF t # <<>> /\ is_whitespace(t[Len(t)])
    THEN trim_end(SubSeq(t, 1, Len(t) - 1))
    ELSE t

\* str::trim
trim(t) == trim_end(trim_start(t))

\* str::to_lowercase
to_lowercase(t) == [i \in DOMAIN t |-> IF t[i] = "A" THEN "a" ELSE t[i]]

\* str::split_whitespace, collected: the maximal runs of non-whitespace
\* characters, in order.  `word` is the run being read.
RECURSIVE split_whitespace_from(_, _, _)
split_whitespace_from(t, words, word) ==
    IF t = <<>>
    THEN IF word # <<>> THEN Append(words, word) ELSE words
    ELSE IF is_whitespace(Head(t))
         THEN split_whitespace_from(Tail(t),
                                    IF word # <<>> THEN Append(words, word) ELSE words,
                                    <<>>)
         ELSE split_whitespace_from(Tail(t), words, Append(word, Head(t)))

split_whitespace(t) == split_whitespace_from(t, <<>>, <<>>)

\* str::splitn(2, ' '), collected: the text before the first space and the
\* whole text after it, or the text itself when it has no space
splitn2(t) ==
    IF \E i \in DOMAIN t : t[i] = " "
    THEN LET i == CHOOSE i \in DOMAIN t : t[i] = " " /\ \A j \in 1..(i - 1) : t[j] # " "
         IN <<SubSeq(t, 1, i - 1), SubSeq(t, i + 1, Len(t))>>
    ELSE <<t>>

\* (variant: the chunk is closed only when it is already over the limit)
RECURSIVE split_text_loop_late(_, _, _)
split_text_loop_late(words, chunks, current_chunk) ==
    IF words = <<>>
    THEN IF current_chunk # <<>> THEN Append(chunks, trim(current_chunk)) ELSE chunks
    ELSE LET word == Head(words)
             close == Len(current_chunk) + 1 > MAX_TEXT_LENGTH /\ current_chunk # <<>>
             chunks1 == IF close THEN Append(chunks, trim(current_chunk)) ELSE chunks
             chunk1 == IF close THEN <<>> ELSE current_chunk
             chunk2 == IF chunk1 # <<>> THEN Append(chunk1, " ") ELSE chunk1
         IN split_text_loop_late(Tail(words), chunks1, chunk2 \o word)

\* (variant: the word that closes a chunk is not carried into the next one)
RECURSIVE split_text_loop_drop(_, _, _)
split_text_loop_drop(words, chunks, current_chunk) ==
    IF words = <<>>
    THEN IF current_chunk # <<>> THEN Append(chunks, trim(current_chunk)) ELSE chunks
    ELSE LET word == Head(words)
             close == Len(current_chunk) + Len(word) + 1 > MAX_TEXT_LENGTH
                      /\ current_chunk # <<>>
             chunks1 == IF close THEN Append(chunks, trim(current_chunk)) ELSE chunks
             chunk1 == IF close THEN <<>> ELSE current_chunk
             chunk2 == IF chunk1 # <<>> THEN Append(chunk1, " ") ELSE chunk1
         IN split_text_loop_drop(Tail(words), chunks1,
                                 IF close THEN <<>> ELSE chunk2 \o word)

\* The for loop of split_text over the words still to come: a word that
\* would take the current chunk over MAX_TEXT_LENGTH closes it (trimmed)
\* first; after the loop a non-empty current chunk is pushed.
RECURSIVE split_text_loop(_, _, _)
split_text_loop(words, chunks, current_chunk) ==
    IF words = <<>>
    THEN IF current_chunk # <<>> THEN Append(chunks, trim(current_chunk)) ELSE chunks
    ELSE LET word == Head(words)
             close == Len(current_chunk) + Len(word) + 1 > MAX_TEXT_LENGTH
                      /\ current_chunk # <<>>
             chunks1 == IF close THEN Append(chunks, trim(current_chunk)) ELSE chunks
             chunk1 == IF close THEN <<>> ELSE current_chunk
             chunk2 == IF chunk1 # <<>> THEN Append(chunk1, " ") ELSE chunk1
         IN split_text_loop(Tail(words), chunks1, chunk2 \o word)

\* TTSService::split_text.  A text of at most MAX_TEXT_LENGTH bytes is
\* returned as it came, as the only chunk.
split_text(text) ==
    IF Len(text) <= MAX_TEXT_LENGTH
    THEN <<text>>
    ELSE split_text_loop(split_whitespace(text), <<>>, <<>>)

\* (variant: the message is not trimmed before it is cut)
tts_command_untrimmed(message) ==
    LET message_text == to_lowercase(message)
        parts == splitn2(message_text)
    IN IF /\ Len(message_text) > 1
          /\ message_text[1] = "!"
          /\ Len(parts) = 2
          /\ Tail(parts[1]) \in Languages
       THEN [is_tts |-> TRUE, language |-> Tail(parts[1]), tts_text |-> parts[2]]
       ELSE [is_tts |-> FALSE, language |-> <<>>, tts_text |-> <<>>]

\* What the intake of handle_twitch_messages makes of a chat message: the
\* message is trimmed and lowercased, must start with '!' and be longer
\* than that, is cut at its first space into the command and the rest, and
\* the command without its '!' must be the code of an enabled language.
\* The rest is the text of the TTS request.
tts_command(message) ==
    LET message_text == to_lowercase(trim(message))
        parts == splitn2(message_text)
    IN IF /\ Len(message_text) > 1
          /\ message_text[1] = "!"
          /\ Len(parts) = 2
          /\ Tail(parts[1]) \in Languages
       THEN [is_tts |-> TRUE, language |-> Tail(parts[1]), tts_text |-> parts[2]]
       ELSE [is_tts |-> FALSE, language |-> <<>>, tts_text |-> <<>>]

\* the id of the request a pending item carries
request_id(item) == <<item.req, item.chunk>>

\* (variant: the found item is swapped out with the last one)
remove_swap(q, id) ==
    IF \E p \in 1..Len(q) : request_id(q[p]) = id
    THEN LET pos == CHOOSE p \in 1..Len(q) :
                        /\ request_id(q[p]) = id
                        /\ \A j \in 1..(p - 1) : request_id(q[j]) # id
         IN <<TRUE, [j \in 1..(Len(q) - 1) |-> IF j = pos THEN q[Len(q)] ELSE q[j]]>>
    ELSE <<FALSE, q>>

\* TTSQueue::remove: the first pending item whose request id is `id` is
\* taken out (VecDeque::remove shifts the later ones down).  Returns the
\* pair of the returned flag and the sequence afterwards.
remove(q, id) ==
    IF \E p \in 1..Len(q) : request_id(q[p]) = id
    THEN LET pos == CHOOSE p \in 1..Len(q) :
                        /\ request_id(q[p]) = id
                        /\ \A j \in 1..(p - 1) : request_id(q[j]) # id
         IN <<TRUE, [j \in 1..(Len(q) - 1) |-> IF j < pos THEN q[j] ELSE q[j + 1]]>>
    ELSE <<FALSE, q>>

\* Display of a usize, as "{}" formats it
RECURSIVE to_string(_)
to_string(i) ==
    LET digit == <<"0", "1", "2", "3", "4", "5", "6", "7", "8", "9">>[(i % 10) + 1]
    IN IF i < 10 THEN <<digit>> ELSE Append(to_string(i \div 10), digit)

\* The id of the queue item of chunk chunk_index, in the synthesis task of
\* handle_twitch_messages: "<id>-<index>" when the text has several chunks,
\* the message id itself when it has one.
chunk_id(id, chunk_count, chunk_index) ==
    IF chunk_count > 1 THEN id \o <<"-">> \o to_string(chunk_index) ELSE id

\* unique_id of TTSService::process_request: always "<id>-<index>"
unique_id(id, index) == id \o <<"-">> \o to_string(index)

\* The arguments the functions are studied on.
TextInputs == {[kind |-> "text", text |-> t] : t \in Strings(TextChars, MaxTextChars)}
MessageInputs ==
    {[kind |-> "message", message |-> m] : m \in Strings(MessageChars, MaxMessageChars)}
\* pending sequences of one-chunk items; two items may carry the same
\* request id, and seq tells them apart
PendingSequences ==
    UNION {{[j \in 1..n |-> TTSQueueItem(f[j], 0, "alice", j)] : f \in [1..n -> Requests]}
              : n \in 0..MaxQueueLen}
RemoveInputs ==
    {[kind |-> "remove", queue |-> q, id |-> <<r, 0>>] :
        q \in PendingSequences, r \in 1..(MaxRequests + 1)}
MessageIds == Strings(IdChars, MaxIdChars) \ {<<>>}
IdInputs ==
    {[kind |-> "ids", id1 |-> a, count1 |-> n, id2 |-> b, count2 |-> m] :
        a \in MessageIds, n \in 1..MaxChunks, b \in MessageIds, m \in 1..MaxChunks}

\* One argument is drawn; the program itself is as after construction.
UtilInit ==
    /\ InitProgram
    /\ input \in TextInputs \union MessageInputs \union RemoveInputs \union IdInputs
    /\ output = NoOutput

\* tts_service.split_text(&text)
SplitText ==
    /\ input.kind = "text"
    /\ output = NoOutput
    /\ output' = [kind |-> "chunks", chunks |-> split_text(input.text)]
    /\ UNCHANGED <<ttsVars, cmdVars, chanLen, input, sessVars, cfgVars>>

\* A chat message arrives; when it is a TTS command its text is split.
IntakeSplit ==
    /\ input.kind = "message"
    /\ output = NoOutput
    /\ LET c == tts_command(input.message)
       IN output' = IF c.is_tts
                    THEN [kind |-> "request", tts_text |-> c.tts_text,
                          chunks |-> split_text(c.tts_text)]
                    ELSE [kind |-> "not_tts"]
    /\ UNCHANGED <<ttsVars, cmdVars, chanLen, input, sessVars, cfgVars>>

\* tts_queue.remove(id) on the pending sequence input.queue
Remove ==
    /\ input.kind = "remove"
    /\ output = NoOutput
    /\ LET r == remove(input.queue, input.id)
       IN output' = [kind |-> "removed", found |-> r[1], queue |-> r[2]]
    /\ UNCHANGED <<ttsVars, cmdVars, chanLen, input, sessVars, cfgVars>>

\* The synthesis tasks of two chat messages derive the ids of their items.
DeriveIds ==
    /\ input.kind = "ids"
    /\ output = NoOutput
    /\ output' = [kind |-> "keys",
                  keys1 |-> [i \in 0..(input.count1 - 1) |->
                                chunk_id(input.id1, input.count1, i)],
                  keys2 |-> [i \in 0..(input.count2 - 1) |->
                                chunk_id(input.id2, input.count2, i)],
                  unique1 |-> [i \in 0..(input.count1 - 1) |-> unique_id(input.id1, i)],
                  unique2 |-> [i \in 0..(input.count2 - 1) |-> unique_id(input.id2, i)]]
    /\ UNCHANGED <<ttsVars, cmdVars, chanLen, input, sessVars, cfgVars>>

UtilNext ==
    \/ SplitText
    \/ IntakeSplit
    \/ Remove
    \/ DeriveIds

UtilSpec == UtilInit /\ [][UtilNext]_vars


\* ------------------------------------------ routing of a chat message
\* the characters of the chat messages that are routed
ChatChars == {"!", "a", " "}
\* the codes a language table can hold
LangCodes == {<<"a">>}
\* LanguageConfig.languages: the known codes, each enabled or not
LanguageConfigs == UNION {[K -> BOOLEAN] : K \in SUBSET LangCodes}
\* badge sets of the senders: no badge, or one badge
SenderBadgeSets == {{}} \union {{b} : b \in AllBadges}

\* the badge test of the TTS branch
has_tts_permission(badges, permited_roles) ==
    \E badge \in badges :
        \/ (badge = "subscriber" \/ badge = "founder") /\ permited_roles.subs
        \/ badge = "vip" /\ permited_roles.vips
        \/ badge = "moderator" /\ permited_roles.mods
        \/ badge = "broadcaster"

\* What the event loop did with a message.  spawned: the TTSRequest was
\* built and its synthesis task spawned; parsed: the message went on to
\* command_parser.parse, from which the executor and the sound fallback
\* are reached.
Routed(spawned, parsed, text) ==
    [kind |-> "routed", spawned |-> spawned, parsed |-> parsed, tts_text |-> text,
     chunks |-> IF spawned THEN split_text(text) ELSE <<>>]

\* (variant: only a message of an enabled language with TTS enabled is kept
\* from the command parser)
handle_chat_message_fallthrough(c) ==
    LET message_text == to_lowercase(trim(c.message))
        parts == splitn2(message_text)
        is_tts_form == Len(message_text) > 1 /\ message_text[1] = "!" /\ Len(parts) = 2
        code == Tail(parts[1])
    IN IF is_tts_form /\ code \in DOMAIN c.languages
          /\ c.languages[code] /\ c.tts_enabled
       THEN IF ~has_tts_permission(c.badges, c.permited_roles)
            THEN Routed(FALSE, FALSE, <<>>)
            ELSE IF c.ignored
                 THEN Routed(FALSE, FALSE, <<>>)
                 ELSE Routed(TRUE, FALSE, parts[2])
       ELSE Routed(FALSE, TRUE, <<>>)

\* (variant: the sender's badges are not looked at)
handle_chat_message_open(c) ==
    LET message_text == to_lowercase(trim(c.message))
        parts == splitn2(message_text)
        is_tts_form == Len(message_text) > 1 /\ message_text[1] = "!" /\ Len(parts) = 2
        code == Tail(parts[1])
    IN IF is_tts_form /\ code \in DOMAIN c.languages
       THEN IF c.languages[code] /\ c.tts_enabled
            THEN IF c.ignored
                 THEN Routed(FALSE, FALSE, <<>>)
                 ELSE Routed(TRUE, FALSE, parts[2])
            ELSE Routed(FALSE, FALSE, <<>>)
       ELSE Routed(FALSE, TRUE, <<>>)

\* TwitchEvent::ChatMessage in handle_twitch_messages, up to the command
\* branch.  A message "!<code> <text>" whose code the language table knows
\* ends in `continue` in every case; the request is built only for an
\* enabled language, with TTS enabled, for a permitted sender who is not
\* ignored.  Every other message goes on to the command parser.
handle_chat_message(c) ==
    LET message_text == to_lowercase(trim(c.message))
        parts == splitn2(message_text)
        is_tts_form == Len(message_text) > 1 /\ message_text[1] = "!" /\ Len(parts) = 2
        code == Tail(parts[1])
    IN IF is_tts_form /\ code \in DOMAIN c.languages
       THEN IF c.languages[code] /\ c.tts_enabled
            THEN IF ~has_tts_permission(c.badges, c.permited_roles)
                 THEN Routed(FALSE, FALSE, <<>>)
                 ELSE IF c.ignored
                      THEN Routed(FALSE, FALSE, <<>>)
                      ELSE Routed(TRUE, FALSE, parts[2])
            ELSE Routed(FALSE, FALSE, <<>>)
       ELSE Routed(FALSE, TRUE, <<>>)

\* A chat message, with the configuration it meets: the language table,
\* config.tts.enabled, config.tts.permited_roles, the sender's badges, and
\* whether the sender is on the ignore list.
ChatInputs ==
    [kind : {"chat"},
     message : Strings(ChatChars, MaxChatChars),
     languages : LanguageConfigs,
     tts_enabled : BOOLEAN,
     permited_roles : Permissions,
     badges : SenderBadgeSets,
     ignored : BOOLEAN]

IntakeInit ==
    /\ InitProgram
    /\ input \in ChatInputs
    /\ output = NoOutput

\* The event loop receives the chat message.
HandleChatMessage ==
    /\ input.kind = "chat"
    /\ output = NoOutput
    /\ output' = handle_chat_message(input)
    /\ UNCHANGED <<ttsVars, cmdVars, chanLen, input, sessVars, cfgVars>>

IntakeNext == HandleChatMessage

IntakeSpec == IntakeInit /\ [][IntakeNext]_vars


\* ------------------------------------------------- chat session tasks
\* A session task is "waiting" while it is suspended at an await, "running"
\* while a worker polls it, "cancelled_running" when it was aborted during
\* a poll that has not returned yet, and "gone" once it was dropped or has
\* returned.
Alive(s) == sess[s] \in {"waiting", "running", "cancelled_running"}

\* JoinHandle::abort: the task is marked for cancellation.  A suspended
\* task is dropped without running again; a task a worker is polling goes
\* on to the end of that poll.
abort(ss, h) ==
    [ss EXCEPT ![h] = IF @ = "waiting" THEN "gone"
                      ELSE IF @ = "running" THEN "cancelled_running"
                      ELSE @]

\* FrontendToBackendMessage::ConnectToChat: the stored handle, if any, is
\* taken and aborted (and a log line sent), then the new session task is
\* spawned and its handle stored, and a log line sent.
FrontConnectToChat ==
    /\ pc_f = "recv"
    /\ \E k \in SessionIds :
          /\ sess[k] = "unborn"
          /\ \A j \in 1..(k - 1) : sess[j] # "unborn"
          /\ LET aborted == IF twitch_task_handle # NoSession
                            THEN abort(sess, twitch_task_handle)
                            ELSE sess
             IN sess' = [aborted EXCEPT ![k] = "waiting"]
          /\ twitch_task_handle' = k
    /\ chanLen' = IF twitch_task_handle # NoSession
                  THEN try_send(try_send(chanLen))
                  ELSE try_send(chanLen)
    /\ UNCHANGED <<ttsVars, cmdVars, input, output, origin, cfgVars>>

\* FrontendToBackendMessage::DisconnectFromChat: the stored handle is taken
\* and aborted; either way one log line is sent.
FrontDisconnectFromChat ==
    /\ pc_f = "recv"
    /\ sess' = IF twitch_task_handle # NoSession
               THEN abort(sess, twitch_task_handle)
               ELSE sess
    /\ twitch_task_handle' = NoSession
    /\ chanLen' = try_send(chanLen)
    /\ UNCHANGED <<ttsVars, cmdVars, input, output, origin, cfgVars>>

\* A worker starts polling the session task (an event has arrived).
SessPoll(s) ==
    /\ sess[s] = "waiting"
    /\ sess' = [sess EXCEPT ![s] = "running"]
    /\ UNCHANGED <<ttsVars, cmdVars, chanLen, input, output, twitch_task_handle, origin,
                   cfgVars>>

\* The poll returns Pending at an await; a task marked for cancellation is
\* dropped there.
SessYield(s) ==
    /\ sess[s] \in {"running", "cancelled_running"}
    /\ sess' = [sess EXCEPT ![s] = IF @ = "running" THEN "waiting" ELSE "gone"]
    /\ UNCHANGED <<ttsVars, cmdVars, chanLen, input, output, twitch_task_handle, origin,
                   cfgVars>>

\* handle_twitch_messages returns (the connection failed, or the event
\* channel was closed); the handle stays stored.
SessReturn(s) ==
    /\ sess[s] \in {"running", "cancelled_running"}
    /\ sess' = [sess EXCEPT ![s] = "gone"]
    /\ UNCHANGED <<ttsVars, cmdVars, chanLen, input, output, twitch_task_handle, origin,
                   cfgVars>>

\* The session, while polled, accepts a TTS message of user u with n chunks
\* and spawns its synthesis task, which is detached: no handle of it is
\* kept.
SessAcceptTTS(s, u, n) ==
    /\ sess[s] \in {"running", "cancelled_running"}
    /\ nextReq <= MaxRequests
    /\ ~is_user_ignored(ignored_users, u)
    /\ tasks' = [tasks EXCEPT ![nextReq] =
                    [pc |-> "fetch", idx |-> 0, n |-> n, user |-> u, inflight |-> {0}]]
    /\ origin' = [origin EXCEPT ![nextReq] = s]
    /\ nextReq' = nextReq + 1
    /\ UNCHANGED <<cmdVars, queueVars, schedVars, sinks, frontVars, chanLen, histVars,
                   input, output, twitch_task_handle, sess, cfgVars>>

SessionNext ==
    \/ FrontConnectToChat
    \/ FrontDisconnectFromChat
    \/ \E s \in SessionIds : SessPoll(s)
    \/ \E s \in SessionIds : SessYield(s)
    \/ \E s \in SessionIds : SessReturn(s)
    \/ \E s \in SessionIds, u \in Users, n \in 1..MaxChunks : SessAcceptTTS(s, u, n)
    \/ \E r \in Requests : SynthFetch(r)
    \/ \E r \in Requests : SynthSend(r)
    \/ UIDrain

SessionSpec == Init /\ [][SessionNext]_vars


\* --------------------------------------------------- config.toml updates
\* The AppConfig a handler saves: the loaded one with the sections of the
\* update replaced by its value.
updated_config(loaded, update) ==
    [sec \in Sections |-> IF sec \in update.sections THEN update.value ELSE loaded[sec]]

\* The sections each message replaces: UpdateTTSConfig, UpdateSfxConfig,
\* UpdateConfig (the whole ChatbotConfig of the UI, tokens included).
FrontendUpdates == {{"tts"}, {"sfx"}, {"chatbot", "tokens"}}

\* backend::config::load_config() at the start of UpdateTTSConfig,
\* UpdateSfxConfig or UpdateConfig in the frontend handler: the whole file
\* is read into current_config.
FrontLoadConfig(sections, v) ==
    /\ pc_f = "recv"
    /\ current_config["frontend"] = NoConfig
    /\ current_config' = [current_config EXCEPT !["frontend"] = config_file]
    /\ pending_update' = [pending_update EXCEPT !["frontend"] =
                             [sections |-> sections, value |-> v]]
    /\ UNCHANGED <<ttsVars, cmdVars, chanLen, input, output, sessVars, config_file,
                   latest_written>>

\* TwitchClientEvent::TokensRefreshed in the chat session task:
\* load_config() into current_config.
SessLoadConfig(v) ==
    /\ current_config["session"] = NoConfig
    /\ current_config' = [current_config EXCEPT !["session"] = config_file]
    /\ pending_update' = [pending_update EXCEPT !["session"] =
                             [sections |-> {"tokens"}, value |-> v]]
    /\ UNCHANGED <<ttsVars, cmdVars, chanLen, input, output, sessVars, config_file,
                   latest_written>>

\* backend::config::save_config(..) of task t: the whole AppConfig, built
\* from what the task loaded and its own sections, replaces the file; the
\* frontend handler then sends its log line.
SaveConfig(t) ==
    /\ current_config[t] # NoConfig
    /\ config_file' = updated_config(current_config[t], pending_update[t])
    /\ latest_written' = [sec \in Sections |->
                             IF sec \in pending_update[t].sections
                             THEN pending_update[t].value
                             ELSE latest_written[sec]]
    /\ current_config' = [current_config EXCEPT ![t] = NoConfig]
    /\ pending_update' = [pending_update EXCEPT ![t] = NoUpdate]
    /\ chanLen' = IF t = "frontend" THEN try_send(chanLen) ELSE chanLen
    /\ UNCHANGED <<ttsVars, cmdVars, input, output, sessVars>>

ConfigNext ==
    \/ \E sections \in FrontendUpdates, v \in 1..MaxConfigValue : FrontLoadConfig(sections, v)
    \/ \E v \in 1..MaxConfigValue : SessLoadConfig(v)
    \/ \E t \in ConfigTasks : SaveConfig(t)
    \/ UIDrain

ConfigSpec == Init /\ [][ConfigNext]_vars


\* ================================================================ claims

\* A step of the scheduler in which queue.pop() returned an item
PopReturnsItem == pc_s = "pop" /\ pc_s' = "check_ignored"

\* C1: the PlaybackQueue is FIFO.  Whenever the consumer's pop() returns an
\* item, the queue was not empty and the item is the pending item whose
\* add() took the queue lock earliest; the other pending items stay, in
\* order.  The pending items are always held in the order of their add()
\* calls, and pop() gives the empty result exactly on the empty queue.
C1_QueueFIFO ==
    [][ /\ \A i, j \in 1..Len(queue) : i < j => queue[i].seq < queue[j].seq
        /\ (pop(queue)[1] = NoItem) <=> (queue = <<>>)
        /\ PopReturnsItem =>
             /\ queue # <<>>
             /\ item_s' \in Range(queue)
             /\ \A x \in Range(queue) : item_s'.seq <= x.seq
             /\ queue' = SelectSeq(queue, LAMBDA x : x # item_s')
      ]_vars

\* C1 witness: a pop has returned an item while items of two different
\* producers (requests) were still pending behind it.
C1_Witness ==
    /\ pc_s = "check_ignored"
    /\ Len(queue) >= 2
    /\ \E x, y \in Range(queue) : x.req # y.req
    /\ \A x \in Range(queue) : item_s.seq < x.seq


\* C2: a stale skip never suppresses the following item: whenever the
\* scheduler is about to publish an item as currently playing and start its
\* playback, the skip flag is false.
C2_NoStaleSkipAtStart == pc_s = "publish" => skip_flag = FALSE

\* The scheduler is in its Playing state: the item is published and the
\* blocking playback has not returned.
Playing == pc_s \in {"send_first", "open", "chunk", "poll"}

\* The scheduler is at a check of the skip flag: before a chunk, or at a
\* completion poll of a sink that is still playing.
AtSkipCheck == pc_s = "chunk" \/ (pc_s = "poll" /\ item_s \in sinks)

\* C3: cancellation of the in-flight item.  When the skip flag is set at a
\* check of the scheduler, that check ends the playback: the device output
\* is stopped and no further chunk of the item is started; and a skip flag
\* set while the scheduler is Playing leads to Idle with currently-playing
\* cleared.
C3_Cancellation ==
    /\ [][ (AtSkipCheck /\ skip_flag /\ pc_s' # pc_s) =>
             (pc_s' = "clear_skip" /\ sinks' = {} /\ idx_s' = idx_s) ]_vars
    /\ ((Playing /\ skip_flag) ~> (pc_s = "pop" /\ currently_playing = NoItem))

\* C3 witness: the completion poll saw the skip flag while the item's chunk
\* was playing and stopped the sink.
C3_Witness ==
    /\ pc_s = "clear_skip"
    /\ result_s = "skip_during_playback"
    /\ currently_playing = item_s
    /\ sinks = {}

\* C4: a skip request leaves the pending sequence unchanged: the steps of
\* SkipCurrentTTS and of SkipTTSMessage (for the currently playing id) that
\* execute the skip do not change the queue.
C4_SkipKeepsPending ==
    [][ (FrontSkipCurrentTTS \/ FrontSkipIfCurrent) => queue' = queue ]_vars


\* C5: ignore semantics in the scheduler.  The step that finds the popped
\* item's requester on the ignore list leaves the currently-playing slot and
\* the channel untouched and returns to the pop; no item discarded this way
\* is ever published as currently playing.
C5_IgnoredDiscarded ==
    /\ [][ (pc_s = "check_ignored" /\ item_s.user \in ignored_users /\ pc_s' # pc_s) =>
             /\ pc_s' = "pop"
             /\ currently_playing' = currently_playing
             /\ chanLen' = chanLen
             /\ item_s.seq \in discarded' ]_vars
    /\ [](discarded \cap published = {})
    /\ [](currently_playing # NoItem => currently_playing.seq \notin discarded)

\* C5 witness: an item was discarded as ignored and the scheduler has gone
\* on to pop the next pending item, which it is about to publish.
C5_Witness ==
    /\ discarded # {}
    /\ pc_s = "publish"
    /\ item_s.seq \notin discarded

\* Two items are the same queue item when their request ids are equal
SameId(x, y) == x.req = y.req /\ x.chunk = y.chunk

\* C6: the currently-playing slot and the pending sequence are disjoint.
C6_CurrentNotPending ==
    currently_playing # NoItem =>
        \A x \in Range(queue) : ~SameId(x, currently_playing)

\* C6 witness: an item is currently playing while others are pending.
C6_Witness == currently_playing # NoItem /\ Len(queue) >= 2

\* C7: in every state, whichever task takes it, the snapshot lists the
\* currently-playing item first (the item the scheduler is playing, whenever
\* it is in its Playing state) followed by the pending items in the order
\* of their add() calls.
C7_SnapshotOrder ==
    LET snap == get_all_with_current(currently_playing, queue)
        first == IF currently_playing = NoItem THEN 1 ELSE 2
    IN /\ Playing => (snap # <<>> /\ snap[1] = item_s)
       /\ currently_playing # NoItem => (snap # <<>> /\ snap[1] = currently_playing)
       /\ Len(snap) = Len(queue) + first - 1
       /\ \A i \in first..Len(snap) : snap[i] = queue[i - first + 1]
       /\ \A i, j \in first..Len(snap) : i < j => snap[i].seq < snap[j].seq

\* C7 witness: the scheduler is about to take its first snapshot of an item
\* while two items are pending.
C7_Witness ==
    /\ pc_s = "send_first"
    /\ currently_playing = item_s
    /\ Len(queue) >= 2

\* C8: at most one item is rendered at a time.  The device never outputs
\* more than one source; a source being output is that of the item the
\* scheduler is polling, which is the currently-playing item.
C8_OneAtATime ==
    /\ Cardinality(sinks) <= 1
    /\ sinks # {} => (pc_s = "poll" /\ sinks = {item_s} /\ currently_playing = item_s)

\* C8 witness: an item is being output while the next one is pending.
C8_Witness == sinks # {} /\ queue # <<>> /\ Cardinality(published) >= 2

\* C9: partial-success policy.  A synthesis task only ends after its last
\* chunk; the step that ends the body for chunk i moves to chunk i + 1
\* whenever there is one, whether chunk i failed or not; and a chunk that
\* succeeds is appended to the PlaybackQueue in that very step.
C9_PartialSuccess ==
    /\ [][ \A r \in Requests :
             /\ (tasks[r].pc = "fetch" /\ tasks'[r] # tasks[r]) =>
                  /\ tasks'[r].idx = tasks[r].idx
                  /\ \/ tasks'[r].pc = "log" /\ queue' = queue
                     \/ /\ tasks'[r].pc = "send"
                        /\ Len(queue') = Len(queue) + 1
                        /\ queue'[Len(queue')].req = r
                        /\ queue'[Len(queue')].chunk = tasks[r].idx
             /\ (tasks[r].pc \in {"send", "log"} /\ tasks'[r] # tasks[r]) =>
                  IF tasks[r].idx + 1 < tasks[r].n
                  THEN tasks'[r].pc = "fetch" /\ tasks'[r].idx = tasks[r].idx + 1
                  ELSE tasks'[r].pc = "done" ]_vars
    /\ [](\A r \in Requests : tasks[r].pc = "done" => tasks[r].idx = tasks[r].n - 1)

\* C9 witness: the first chunk of a two-chunk request failed and the second
\* one has been synthesized and is in the queue.
C9_Witness ==
    \E r \in Requests :
        /\ tasks[r].n = 2
        /\ tasks[r].pc = "done"
        /\ \E x \in Range(queue) : x.req = r /\ x.chunk = 1
        /\ \A x \in Range(queue) : x.req = r => x.chunk = 1
        /\ published = {} /\ discarded = {} /\ pc_s = "pop" /\ addCount = 1

\* C10: one accepted request yields exactly one queue item: no two distinct
\* items of the same request are pending or playing, so that the items of a
\* request can never have another request's item between them.
C10_OneItemPerRequest ==
    \A x, y \in Range(get_all_with_current(currently_playing, queue)) :
        x.req = y.req => x = y


\* Chunk indexes of request r that its synthesis task has not added yet
NotYetAdded(r) ==
    IF tasks[r].pc = "fetch" THEN tasks[r].idx .. (tasks[r].n - 1)
    ELSE IF tasks[r].pc \in {"send", "log"} THEN (tasks[r].idx + 1) .. (tasks[r].n - 1)
    ELSE {}

\* C11: chunk order is preserved end to end.  When a chunk of a request
\* starts to play, every chunk of that request that is still pending or not
\* yet synthesized comes later in the split order, so no earlier chunk can
\* play after it; the pending chunks of one request are queued in split
\* order, once each; and every synthesized text chunk is one audio chunk.
C11_ChunkOrder ==
    /\ [][ (pc_s = "chunk" /\ pc_s' = "poll") =>
             /\ item_s \in sinks'
             /\ \A x \in Range(queue) : x.req = item_s.req => x.chunk > item_s.chunk
             /\ \A i \in NotYetAdded(item_s.req) : i > item_s.chunk ]_vars
    /\ [](\A i, j \in 1..Len(queue) :
            (i < j /\ queue[i].req = queue[j].req) => queue[i].chunk < queue[j].chunk)
    /\ [](\A x \in Range(get_all_with_current(currently_playing, queue)) :
            x.audio_chunks = 1)

\* C11 witness: the second chunk of the only accepted request is playing
\* after its first chunk was played.
C11_Witness ==
    /\ nextReq = 2
    /\ item_s.chunk = 1
    /\ item_s \in sinks
    /\ published = {1, 2}


\* C12: the core never blocks on the channel to the UI.  A task that has
\* reached a send of a snapshot or of a log line can always take that step,
\* whatever the channel holds: the playback scheduler at its two snapshot
\* sends, and a synthesis task at its send.
C12_NeverBlocksOnChannel ==
    /\ pc_s = "send_first" => ENABLED SchedSendFirst
    /\ pc_s = "send_final" => ENABLED SchedSendFinal
    /\ \A r \in Requests : tasks[r].pc \in {"send", "log"} => ENABLED SynthSend(r)


\* The synthesis of request r is pending: its task has chunks to fetch or
\* a send to make.
SynthesisPending(r) == tasks[r].pc \in {"fetch", "send", "log"}

\* C13: producers never block event intake.  Accepting a TTS request only
\* spawns its synthesis (nothing is fetched or queued in that step), and
\* while the synthesis of any accepted request is pending the event loop
\* can take and accept the next TTS message of a user who is not ignored.
C13_IntakeNotBlocked ==
    /\ [][ nextReq' # nextReq =>
             /\ nextReq' = nextReq + 1
             /\ tasks'[nextReq].pc = "fetch" /\ tasks'[nextReq].idx = 0
             /\ queue' = queue
             /\ \A r \in Requests : r # nextReq => tasks'[r] = tasks[r] ]_vars
    /\ [](\A u \in Users, n \in 1..MaxChunks :
            ( /\ \E r \in Requests : SynthesisPending(r)
              /\ nextReq <= MaxRequests
              /\ ~is_user_ignored(ignored_users, u) ) => ENABLED AcceptTTS(u, n))

\* C13 witness: a second request was accepted while the first chunk of the
\* first one was still being synthesized.
C13_Witness ==
    /\ tasks[1].pc = "fetch" /\ tasks[1].idx = 0
    /\ tasks[2].pc = "fetch"
    /\ addCount = 0


\* C14: a failure to open the audio device is not fatal to the scheduler.
\* The failed open abandons the item (nothing of it is output, the pending
\* items are untouched) and goes to the finalization, which clears the skip
\* flag and then the currently-playing slot; and from the failure the
\* scheduler comes back to its pop with the slot empty.
C14_OpenFailureNotFatal ==
    /\ [][ (pc_s = "open" /\ pc_s' # pc_s) =>
             \/ pc_s' = "chunk" /\ result_s' = result_s
             \/ /\ pc_s' = "clear_skip" /\ result_s' = "open_failed"
                /\ sinks' = {} /\ queue' = queue ]_vars
    /\ [][ (pc_s = "clear_skip" /\ pc_s' # pc_s) =>
             (skip_flag' = FALSE /\ pc_s' = "clear_current") ]_vars
    /\ [][ (pc_s = "clear_current" /\ pc_s' # pc_s) =>
             (currently_playing' = NoItem /\ pc_s' = "send_final") ]_vars
    /\ [](result_s = "open_failed" => sinks = {})
    /\ (result_s = "open_failed" ~> (pc_s = "pop" /\ currently_playing = NoItem))

\* C14 witness: after a failed open the scheduler has cleared the flag and
\* the slot and is about to return to its pop, with an item pending.
C14_Witness ==
    /\ result_s = "open_failed"
    /\ pc_s = "send_final"
    /\ currently_playing = NoItem
    /\ queue # <<>>


\* The step of the chunk loop in which the chunk at idx_s does not decode
DecodeFails ==
    /\ pc_s = "chunk" /\ ~skip_flag
    /\ pc_s' # "poll"
    /\ <<pc_s, idx_s>>' # <<pc_s, idx_s>>

Executes(s) == pc_d[s] = "lock" /\ pc_d'[s] = "writeback"

\* The user of session s's context may run the enabled command it names
MayRun(s) ==
    LET cmd == registry[ctx_d[s].trigger] IN
    /\ cmd # NoCommand
    /\ cmd.enabled
    /\ has_permission(ctx_d[s].badges, cmd.permission)

\* C16: cooldown decision.  For an enabled command with cooldown c that the
\* user may run, last triggered at t0, execute at time t returns
\* OnCooldown(c - (t - t0)) when t - t0 < c, and Success (recording t) when
\* t - t0 >= c or the command was never triggered; the remaining time is
\* never negative; and outside the executions the recorded t0 is the time
\* of the last Success of the command's definition.
C16_CooldownDecision ==
    /\ [][ \A s \in Sessions : (Executes(s) /\ MayRun(s)) =>
             LET cmd == registry[ctx_d[s].trigger]
                 c == cmd.cooldown
                 t == ctx_d[s].time
                 t0 == cmd.last_triggered
             IN IF t0 # Never /\ t - t0 < c
                THEN /\ result_d'[s] = CommandResult("OnCooldown", c - (t - t0))
                     /\ exec_d'[s] = registry
                ELSE /\ result_d'[s] = CommandResult("Success", 0)
                     /\ exec_d'[s][ctx_d[s].trigger].last_triggered = t ]_vars
    /\ [](\A s \in Sessions : result_d[s].remaining >= 0)
    /\ [](reg_lock = "free" =>
            \A g \in Triggers :
                registry[g] # NoCommand => registry[g].last_triggered = lastSuccess[g])

\* C16 witness: a command with cooldown 2 that succeeded one tick earlier
\* has answered OnCooldown with 1 remaining.
C16_Witness ==
    \E s \in Sessions :
        /\ pc_d[s] = "handle"
        /\ result_d[s] = CommandResult("OnCooldown", 1)
        /\ registry[ctx_d[s].trigger].cooldown = 2
        /\ lastSuccess[ctx_d[s].trigger] = ctx_d[s].time - 1


\* Session s is between its check (execute) and its update (write-back)
InCritical(s) == pc_d[s] = "writeback"

\* C17: the cooldown check and the update of last_triggered are atomic.
\* One session at a time is between its check and its update, and holds the
\* write guard; the update writes what execute gives on the registry as it
\* is then (nothing changed it since the check); and a trigger succeeds
\* only when the last Success of the command, by whichever session, is at
\* least the cooldown back, so that of two concurrent triggers closer than
\* the cooldown one at most succeeds.
C17_AtomicCooldown ==
    /\ [](\A s, r \in Sessions : (InCritical(s) /\ InCritical(r)) => s = r)
    /\ [](\A s \in Sessions : InCritical(s) <=> reg_lock = s)
    /\ [][ \A s \in Sessions : (InCritical(s) /\ ~InCritical(s)') =>
             registry' = execute(registry, ctx_d[s]).registry ]_vars
    /\ [][ \A s \in Sessions :
             (Executes(s) /\ result_d'[s].kind = "Success") =>
                LET g == ctx_d[s].trigger IN
                \/ lastSuccess[g] = Never
                \/ ctx_d[s].time - lastSuccess[g] >= registry[g].cooldown ]_vars

\* C17 witness: two sessions triggered the command at the same time; one
\* got Success and the other OnCooldown.
C17_Witness ==
    /\ pc_d["s1"] = "handle" /\ pc_d["s2"] = "handle"
    /\ ctx_d["s1"].trigger = ctx_d["s2"].trigger
    /\ ctx_d["s1"].time = ctx_d["s2"].time
    /\ {result_d["s1"].kind, result_d["s2"].kind} = {"Success", "OnCooldown"}


\* The roles of badge set b that permission set perm lets run a command
Allowed(b, perm) ==
    \/ "broadcaster" \in b
    \/ (("subscriber" \in b \/ "founder" \in b) /\ perm.subs)
    \/ ("vip" \in b /\ perm.vips)
    \/ ("moderator" \in b /\ perm.mods)

\* C18: command permission check.  An execute of a registered, enabled
\* command answers PermissionDenied, and leaves the registry as it is,
\* exactly when the user is not the broadcaster and has no role that the
\* command's flags allow (a user without a role never has); this holds of
\* the commands that are executed and of execute for every badge set on
\* every registered, enabled command.
C18_PermissionCheck ==
    /\ [][ \A s \in Sessions :
             LET cmd == registry[ctx_d[s].trigger] IN
             (Executes(s) /\ cmd # NoCommand /\ cmd.enabled) =>
                /\ result_d'[s].kind = "PermissionDenied"
                      <=> ~Allowed(ctx_d[s].badges, cmd.permission)
                /\ result_d'[s].kind = "PermissionDenied" => exec_d'[s] = registry ]_vars
    /\ [](\A b \in SUBSET AllBadges, g \in Triggers :
            (registry[g] # NoCommand /\ registry[g].enabled) =>
               LET perm == registry[g].permission
                   res == execute(registry, [trigger |-> g, badges |-> b, time |-> now])
               IN /\ res.result.kind = "PermissionDenied" <=> ~Allowed(b, perm)
                  /\ b = {} => res.result.kind = "PermissionDenied"
                  /\ "broadcaster" \in b => res.result.kind # "PermissionDenied")

\* C18 witness: a command with no flag set has been run by the broadcaster
\* and denied to a subscriber.
C18_Witness ==
    \E s, r \in Sessions :
        /\ pc_d[s] = "handle" /\ pc_d[r] = "handle"
        /\ ctx_d[s].badges = {"broadcaster"} /\ result_d[s].kind = "Success"
        /\ ctx_d[r].badges = {"subscriber"} /\ result_d[r].kind = "PermissionDenied"
        /\ registry[ctx_d[s].trigger].permission =
               [subs |-> FALSE, vips |-> FALSE, mods |-> FALSE]


\* C19: a disabled command does not shadow the sound-effect fallback.  An
\* execute on a trigger whose command is disabled answers NotFound, as for
\* a trigger that is not registered, and changes nothing in the registry
\* (no cooldown timestamp); NotFound is answered in these two cases only;
\* and on NotFound the caller goes on to the sound-effect lookup.
C19_DisabledIsNotFound ==
    [][ \A s \in Sessions :
          LET cmd == registry[ctx_d[s].trigger] IN
          /\ Executes(s) =>
                /\ result_d'[s].kind = "NotFound" <=> (cmd = NoCommand \/ ~cmd.enabled)
                /\ result_d'[s].kind = "NotFound" =>
                      (result_d'[s] = CommandResult("NotFound", 0) /\ exec_d'[s] = registry)
          /\ (InCritical(s) /\ ~InCritical(s)' /\ result_d[s].kind = "NotFound") =>
                registry' = registry
          /\ (pc_d[s] = "handle" /\ pc_d'[s] # "handle" /\ result_d[s].kind = "NotFound") =>
                pc_d'[s] = "sfx" ]_vars

\* C19 witness: a command that was triggered and then disabled has answered
\* NotFound and the session is at the sound-effect lookup, the command's
\* timestamp still in place.
C19_Witness ==
    \E s \in Sessions :
        /\ pc_d[s] = "sfx"
        /\ registry[ctx_d[s].trigger] # NoCommand
        /\ ~registry[ctx_d[s].trigger].enabled
        /\ registry[ctx_d[s].trigger].last_triggered # Never
        /\ registry[ctx_d[s].trigger].last_triggered = lastSuccess[ctx_d[s].trigger]


\* C20: cooldown timestamps only move forward.  In every step, whatever the
\* operation (execute and write-back, AddCommand, UpdateCommand, toggle,
\* unregister), a command that is registered before and after the step has
\* a last_triggered that is not smaller than before, and is not unset.
C20_TimestampsForward ==
    [][ \A g \in Triggers :
          (registry[g] # NoCommand /\ registry'[g] # NoCommand) =>
             /\ registry'[g].last_triggered >= registry[g].last_triggered
             /\ registry[g].last_triggered # Never =>
                   registry'[g].last_triggered # Never ]_vars


\* C21: register is an idempotent upsert keyed by trigger.  After an
\* AddCommand or UpdateCommand of def under trigger g the registry holds def
\* under g and nothing else has changed; registering a definition a second
\* time gives the registry of registering it once; and an unregister of a
\* trigger that is absent, by RemoveCommand or on any reachable registry,
\* leaves the registry as it is.
C21_RegisterUpsert ==
    /\ [][ \A g \in Triggers, def \in UICommands :
             (FrontAddCommand(g, def) \/ FrontUpdateCommand(g, def)) =>
                /\ registry'[g] = def
                /\ \A h \in Triggers \ {g} : registry'[h] = registry[h]
                /\ DOMAIN registry' = Triggers ]_vars
    /\ [][ \A g \in Triggers :
             (FrontRemoveCommand(g) /\ registry[g] = NoCommand) => registry' = registry ]_vars
    /\ [](\A g \in Triggers, def \in UICommands :
            LET once == register(registry, g, def)
            IN once[g] = def /\ register(once, g, def) = once)
    /\ [](\A g \in Triggers :
            registry[g] = NoCommand => unregister(registry, g) = registry)

\* C21 witness: a command that had been triggered was registered again: the
\* session still holds its Success while the registry holds the new
\* definition, not yet triggered.
C21_Witness ==
    \E s \in Sessions :
        /\ pc_d[s] = "handle"
        /\ result_d[s].kind = "Success"
        /\ registry[ctx_d[s].trigger] \in UICommands


\* C30: the registry write lock is not held across network or device I/O.
\* A session that is handling the result of execute (the chat send/reply of a
\* Success, the log sends, the sound lookup and playback) does not hold the
\* lock, the lock is held by a session only between execute and the
\* write-back, and handling a result neither takes nor releases it.
C30_LockNotHeldAcrossIO ==
    /\ [](\A s \in Sessions :
            /\ pc_d[s] \in {"handle", "sfx"} => reg_lock # s
            /\ reg_lock = s => pc_d[s] = "writeback")
    /\ [][ \A s \in Sessions :
             (DispHandle(s) \/ DispSfx(s)) => reg_lock # s /\ reg_lock' = reg_lock ]_vars

\* C30 witness: one session is dispatching the action of a Success while the
\* other one holds the lock for its own execute.
C30_Witness ==
    \E s, t \in Sessions :
        /\ pc_d[s] = "handle"
        /\ result_d[s].kind = "Success"
        /\ reg_lock = t
        /\ t # s


\* C26: the ignore list is applied at playback time, not at enqueue time: a
\* TTS request from a user who is on the ignore list when the message
\* arrives is still accepted, that is, whenever the chat can still deliver
\* a request, the request of every user, ignored or not, can be accepted
\* and its synthesis task spawned.
C26_IgnoredStillAccepted ==
    \A u \in Users :
        nextReq <= MaxRequests =>
            \E n \in 1..MaxChunks : ENABLED AcceptTTS(u, n)


\* C29: synthesis is sequential within a request.  At most one synthesis
\* call of a request is in flight, it is the call for the chunk the task is
\* fetching, and the call for chunk i+1 is issued only by a task that has
\* got the result of the call for chunk i (audio or error) and has sent it
\* on.
C29_SequentialSynthesis ==
    /\ [](\A r \in Requests :
            /\ Cardinality(tasks[r].inflight) <= 1
            /\ tasks[r].inflight # {} <=>
                   (tasks[r].pc = "fetch" /\ tasks[r].inflight = {tasks[r].idx}))
    /\ [][ \A r \in Requests : \A i \in 0..(MaxChunks - 1) :
             (i + 1 \in tasks'[r].inflight /\ i + 1 \notin tasks[r].inflight) =>
                /\ tasks[r].pc \in {"send", "log"}
                /\ tasks[r].idx = i
                /\ tasks[r].inflight = {} ]_vars

\* C29 witness: the call for the second chunk of a request is in flight,
\* after the call for the first chunk failed (nothing was ever added to
\* the queue).
C29_Witness ==
    \E r \in Requests :
        /\ tasks[r].inflight = {1}
        /\ addCount = 0


\* Item number k is in the pending sequence.
Pending(k) == \E j \in 1..Len(queue) : queue[j].seq = k

\* The scheduler has taken item number k from the pending sequence.
PoppedByScheduler(k) == pc_s = "check_ignored" /\ item_s.seq = k

\* Item number k has died: it was discarded as ignored, or it was the
\* currently-playing item and the slot no longer holds it.
Dead(k) == k \in discarded \/ (k \in published /\ currently_playing.seq # k)

SingleWord(chunk) == \A j \in 1..Len(chunk) : ~is_whitespace(chunk[j])

\* C22: split_text length bound.  Every chunk split_text returns has at most
\* MAX_TEXT_LENGTH characters, except a chunk that is a single word longer
\* than that; and every word of the input longer than MAX_TEXT_LENGTH is
\* returned whole, as a chunk of its own.
C22_ChunkLengthBound ==
    output.kind = "chunks" =>
        /\ \A i \in 1..Len(output.chunks) :
              \/ Len(output.chunks[i]) <= MAX_TEXT_LENGTH
              \/ SingleWord(output.chunks[i])
        /\ \A w \in Range(split_whitespace(input.text)) :
              Len(w) > MAX_TEXT_LENGTH => w \in Range(output.chunks)

\* C22 witness: a text was split into several chunks, one of them a single
\* oversized word and another one made of two words.
C22_Witness ==
    /\ output.kind = "chunks"
    /\ \E i, j \in 1..Len(output.chunks) :
          /\ Len(output.chunks[i]) > MAX_TEXT_LENGTH
          /\ ~SingleWord(output.chunks[j])

\* The chunks joined with single spaces.
RECURSIVE JoinWithSpaces(_)
JoinWithSpaces(chunks) ==
    IF chunks = <<>> THEN <<>>
    ELSE IF Len(chunks) = 1 THEN chunks[1]
    ELSE chunks[1] \o <<" ">> \o JoinWithSpaces(Tail(chunks))

\* C23: split_text preserves the words.  The chunks joined with single
\* spaces and split on whitespace are the whitespace-delimited words of the
\* input, in the same order.
C23_WordsPreserved ==
    output.kind = "chunks" =>
        split_whitespace(JoinWithSpaces(output.chunks)) = split_whitespace(input.text)

\* C23 witness: a text with a doubled space between its words was split in
\* several chunks, so the joined chunks differ from the text.
C23_Witness ==
    /\ output.kind = "chunks"
    /\ Len(output.chunks) >= 2
    /\ Len(split_whitespace(input.text)) >= 3
    /\ JoinWithSpaces(output.chunks) # input.text

\* C24: split_text on an already-short text returns exactly one chunk, and
\* that chunk is the trimmed text, also when the text has leading or
\* trailing whitespace: both for a text handed to split_text and for the text
\* of a TTS command taken from a chat message.
C24_ShortTextTrimmed ==
    /\ (output.kind = "chunks" /\ Len(input.text) <= MAX_TEXT_LENGTH) =>
           output.chunks = <<trim(input.text)>>
    /\ (output.kind = "request" /\ Len(output.tts_text) <= MAX_TEXT_LENGTH) =>
           output.chunks = <<trim(output.tts_text)>>

\* C25: remove(id) takes the pending item whose request id is id out of the
\* sequence and returns true, the other items keeping their order; when no
\* pending item has that id it returns false and the sequence is unchanged.
C25_RemoveById ==
    output.kind = "removed" =>
        LET q == input.queue
        IN IF \E p \in 1..Len(q) : request_id(q[p]) = input.id
           THEN /\ output.found
                /\ \E p \in 1..Len(q) :
                      /\ request_id(q[p]) = input.id
                      /\ output.queue = SubSeq(q, 1, p - 1) \o SubSeq(q, p + 1, Len(q))
           ELSE /\ ~output.found
                /\ output.queue = q

\* C25 witness: the removed item was in the middle of the sequence, with
\* another item before it and another after it.
C25_Witness ==
    /\ output.kind = "removed"
    /\ output.found
    /\ Len(input.queue) >= 3
    /\ request_id(input.queue[1]) # input.id
    /\ request_id(input.queue[2]) = input.id
    /\ request_id(input.queue[3]) # input.id

\* C27: per-chunk keys are unique.  The ids derived for the chunks of one
\* message are pairwise distinct, and the ids derived for two messages with
\* different message ids have nothing in common.
C27_ChunkIdsUnique ==
    output.kind = "keys" =>
        /\ \A i, j \in DOMAIN output.keys1 : i # j => output.keys1[i] # output.keys1[j]
        /\ \A i, j \in DOMAIN output.keys2 : i # j => output.keys2[i] # output.keys2[j]
        /\ input.id1 # input.id2 =>
              \A i \in DOMAIN output.keys1, j \in DOMAIN output.keys2 :
                  output.keys1[i] # output.keys2[j]


\* C31: scheduler emissions per played item.  The snapshot the scheduler
\* sends after publishing an item has that item first; the final snapshot,
\* sent after the slot was cleared, does not hold the item; the final
\* snapshot is reached only through the clearing of the slot, and that only
\* through the clearing of the skip flag; and the scheduler leaves each of
\* the two sends only by sending.
C31_SchedulerEmissions ==
    /\ [][ SchedSendFirst =>
             LET snap == get_all_with_current(currently_playing, queue)
             IN /\ item_s # NoItem
                /\ item_s.seq \in published
                /\ snap # <<>>
                /\ snap[1] = item_s
                /\ \A i \in 2..Len(snap) : snap[i] # item_s ]_vars
    /\ [][ SchedSendFinal =>
             LET snap == get_all_with_current(currently_playing, queue)
             IN /\ item_s # NoItem
                /\ item_s.seq \in published
                /\ \A i \in 1..Len(snap) : snap[i] # item_s /\ snap[i].seq # item_s.seq ]_vars
    /\ [][ (pc_s' = "send_final" /\ pc_s # "send_final") =>
             (pc_s = "clear_current" /\ currently_playing' = NoItem) ]_vars
    /\ [][ (pc_s' = "clear_current" /\ pc_s # "clear_current") =>
             (pc_s = "clear_skip" /\ skip_flag' = FALSE /\ item_s' = item_s) ]_vars
    /\ [][ (pc_s = "send_first" /\ pc_s' # pc_s) => SchedSendFirst ]_vars
    /\ [][ (pc_s = "send_final" /\ pc_s' # pc_s) => SchedSendFinal ]_vars

\* C31 witness: the scheduler has sent the final snapshot of an item while
\* another item was pending, so that snapshot was not empty.
C31_Witness ==
    /\ pc_s = "pop"
    /\ published # {}
    /\ currently_playing = NoItem
    /\ queue # <<>>
    /\ chanLen > 0


\* The message has the form "!<code> <text>" with a code the language
\* table knows.
KnownLanguageForm(c) ==
    \E i \in 3..Len(trim(c.message)) :
        LET m == to_lowercase(trim(c.message))
        IN /\ m[1] = "!"
           /\ m[i] = " "
           /\ \A j \in 2..(i - 1) : m[j] # " "
           /\ SubSeq(m, 2, i - 1) \in DOMAIN c.languages

CodeOf(c) ==
    LET m == to_lowercase(trim(c.message))
        i == CHOOSE i \in 3..Len(m) : m[i] = " " /\ \A j \in 2..(i - 1) : m[j] # " "
    IN SubSeq(m, 2, i - 1)

\* The TTS permission predicate: broadcaster, or subscriber/founder with
\* subs, or VIP with vips, or moderator with mods.
TTSPermitted(badges, roles) ==
    \/ "broadcaster" \in badges
    \/ roles.subs /\ ({"subscriber", "founder"} \cap badges) # {}
    \/ roles.vips /\ "vip" \in badges
    \/ roles.mods /\ "moderator" \in badges

\* C34: the request of a chat message is built, and with it its queue items,
\* only if the message names a known and enabled language, TTS is enabled,
\* the sender passes the TTS permission predicate and is not on the ignore
\* list; a sender with no badge never gets one.
C34_TTSGating ==
    (output.kind = "routed" /\ output.spawned) =>
        /\ KnownLanguageForm(input)
        /\ input.languages[CodeOf(input)]
        /\ input.tts_enabled
        /\ TTSPermitted(input.badges, input.permited_roles)
        /\ ~input.ignored
        /\ input.badges # {}

\* C34 witness: the request of a moderator was accepted, moderators being
\* the only permitted role.
C34_Witness ==
    /\ output.kind = "routed"
    /\ output.spawned
    /\ input.badges = {"moderator"}
    /\ input.permited_roles = [subs |-> FALSE, vips |-> FALSE, mods |-> TRUE]


\* C40 as stated: split_text never returns an empty chunk, and returns at
\* least one chunk for every text that holds a word.
C40_NeverEmptyChunk ==
    output.kind = "chunks" =>
        /\ \A i \in 1..Len(output.chunks) : output.chunks[i] # <<>>
        /\ split_whitespace(input.text) # <<>> => Len(output.chunks) >= 1

\* C40, amended: for a text that holds at least one word split_text returns
\* at least one chunk and every chunk holds a word; the text of a TTS
\* command taken from a chat message always holds a word, so that no chunk
\* handed to the synthesis is empty or blank.
C40_NoEmptyChunkForWords ==
    /\ (output.kind = "chunks" /\ split_whitespace(input.text) # <<>>) =>
           /\ Len(output.chunks) >= 1
           /\ \A i \in 1..Len(output.chunks) : split_whitespace(output.chunks[i]) # <<>>
    /\ output.kind = "request" =>
           /\ split_whitespace(output.tts_text) # <<>>
           /\ Len(output.chunks) >= 1
           /\ \A i \in 1..Len(output.chunks) : split_whitespace(output.chunks[i]) # <<>>

\* C40 witness: the text of a TTS command starts with whitespace and was
\* split into its one chunk.
C40_Witness ==
    /\ output.kind = "request"
    /\ output.tts_text # <<>>
    /\ is_whitespace(output.tts_text[1])
    /\ Len(output.chunks) = 1


\* C35: playback order follows chat arrival order across requests.  Request
\* numbers are given in the order of acceptance, so the items of an earlier
\* request stand before those of a later one in the pending sequence, and
\* the item the scheduler holds or plays is of no later request than any
\* pending one.
C35_ArrivalOrder ==
    /\ \A i, j \in 1..Len(queue) : i < j => queue[i].req <= queue[j].req
    /\ \A x \in Range(queue) :
          /\ item_s # NoItem => item_s.req <= x.req
          /\ currently_playing # NoItem => currently_playing.req <= x.req


\* C33: at most one chat session task is alive at any time, and when no
\* handle is stored (before the first ConnectToChat, and after
\* DisconnectFromChat) no session task is alive.
C33_OneSessionAlive ==
    /\ Cardinality({s \in SessionIds : Alive(s)}) <= 1
    /\ twitch_task_handle = NoSession => \A s \in SessionIds : ~Alive(s)

\* C37: once a session has been aborted and dropped, no item of a request it
\* accepted is added to the pending sequence.
C37_NoItemAfterAbort ==
    [][ \A r \in Requests :
          (/\ origin[r] # NoSession
           /\ sess[origin[r]] = "gone"
           /\ twitch_task_handle # origin[r]) =>
             ~(/\ Len(queue') = Len(queue) + 1
               /\ queue'[Len(queue')].req = r) ]_vars


\* C36: SkipTTSMessage(id) cancels only the item with that id.  At the step
\* that executes the skip, the item in the currently-playing slot is still
\* the one asked for, and every item the step keeps from being played is
\* that item.
C36_SkipOnlyThatItem ==
    [][ FrontSkipIfCurrent =>
          /\ currently_playing = msg_f.id
          /\ \A x \in Range(queue) : x \notin Range(queue') => x = msg_f.id ]_vars


\* C38: configuration updates are not lost.  A save changes only the
\* sections of its own update, and whenever no update is under way the
\* stored configuration holds, in every section, the value the latest update
\* of that section wrote.
C38_NoLostConfigUpdate ==
    /\ [][ \A t \in ConfigTasks : SaveConfig(t) =>
             \A sec \in Sections \ pending_update[t].sections :
                 config_file'[sec] = config_file[sec] ]_vars
    /\ []((\A t \in ConfigTasks : current_config[t] = NoConfig) =>
             \A sec \in Sections : config_file[sec] = latest_written[sec])


\* C39: snapshot completeness.  Whenever the frontend handler (GetTTSQueue)
\* or a synthesis task takes the snapshot, every item that was added and
\* whose playback the scheduler has not finished yet, no user being
\* ignored, is in the snapshot exactly once.
C39_SnapshotComplete ==
    [][ (FrontGetTTSQueue \/ \E r \in Requests : (tasks[r].pc = "send" /\ SynthSend(r))) =>
          LET snap == get_all_with_current(currently_playing, queue)
          IN \A k \in 1..addCount :
                (ignored_users = {} /\ ~Dead(k)) =>
                    Cardinality({i \in 1..Len(snap) : snap[i].seq = k}) = 1 ]_vars

====
